---- MODULE Spec2Model ----
(***************************************************************************)
(* Model of the geospatial join layer of civic-engagements-streamlit:      *)
(* the text normalizers, the composite key construction of the two         *)
(* loaders (src/src/utils.py, src/src/utils_pro.py) and the year-scoped    *)
(* join prepare_map_df.                                                    *)
(*                                                                         *)
(* Text is a sequence of one-character strings.  A cell of a data frame    *)
(* is a tagged record: text, number, Python None, NaN / pd.NA, geometry.   *)
(* A data frame is [cols : set of labels, rows : sequence of functions     *)
(* from cols to cells].                                                    *)
(***************************************************************************)
EXTENDS Integers, Sequences, FiniteSets, TLC

VARIABLES
    gdf_all,    \* the caller's geometry dataset (argument gdf_all)
    df_fed,     \* the caller's turnout dataset (argument df_fed)
    gdf_0,      \* gdf_all as it was when the call started
    df_0,       \* df_fed as it was when the call started
    year,       \* the requested year
    hint,       \* join_key_hint ("" stands for None)
    pc,         \* position inside prepare_map_df
    view_gdf,   \* local view_gdf
    df_loc,     \* the frame the local name df_fed is bound to
    df_shared,  \* TRUE while the local df_fed is the caller's object
    df_year,    \* local df_year
    join_key,   \* local join_key ("geo_key" on the preferred path)
    result,     \* what the call gave back: a dataset or an error
    nm_fn,      \* normalizer under test: "names" | "one"
    nm_in,      \* its input cell
    nm_val,     \* the value after nm_cnt applications
    nm_prev,    \* the value one application earlier
    nm_cnt,     \* number of applications so far
    kb_src,     \* raw source handed to a loader (key builder runs)
    kb_out      \* what the loader produced for it

vars == <<gdf_all, df_fed, gdf_0, df_0, year, hint, pc, view_gdf, df_loc,
          df_shared, df_year, join_key, result,
          nm_fn, nm_in, nm_val, nm_prev, nm_cnt, kb_src, kb_out>>

joinVars == <<gdf_all, df_fed, gdf_0, df_0, year, hint, pc, view_gdf, df_loc,
              df_shared, df_year, join_key, result>>
normVars == <<nm_fn, nm_in, nm_val, nm_prev, nm_cnt>>
keyVars == <<kb_src, kb_out>>

----------------------------------------------------------------------------
(* Cells *)

Txt(s) == [t |-> "str", s |-> s]
\* a number: whole part n and the digits f after the decimal point
Dec(n, f) == [t |-> "num", n |-> n, f |-> f]
Num(n) == Dec(n, <<>>)
\* an integer-valued float such as 42.0
Flt(n) == [t |-> "flt", w |-> n]
None == [t |-> "None"]
NaN == [t |-> "nan"]
Geom(parts, simplified) == [t |-> "geom", g |-> parts, simp |-> simplified]

IsNull(c) == c.t \in {"None", "nan"}

----------------------------------------------------------------------------
(* Text helpers: what str.strip, str.lower, re.sub and str() do *)

Space == {" ", "\t"}

\* U+2014 and U+2013, each one character of a text
EmDash == "<U+2014>"
EnDash == "<U+2013>"

UpperChars == <<"A", "B", "C", "D", "E", "F", "G", "H", "I", "J", "K", "L", "M",
                "N", "O", "P", "Q", "R", "S", "T", "U", "V", "W", "X", "Y", "Z", "<U+00C3>">>
LowerChars == <<"a", "b", "c", "d", "e", "f", "g", "h", "i", "j", "k", "l", "m",
                "n", "o", "p", "q", "r", "s", "t", "u", "v", "w", "x", "y", "z", "<U+00E3>">>

LowerChar(c) ==
    IF \E i \in DOMAIN UpperChars : UpperChars[i] = c
    THEN LowerChars[CHOOSE i \in DOMAIN UpperChars : UpperChars[i] = c]
    ELSE c

\* str.lower()
Lower(s) == [i \in DOMAIN s |-> LowerChar(s[i])]

RECURSIVE LStrip(_)
LStrip(s) == IF s # <<>> /\ Head(s) \in Space THEN LStrip(Tail(s)) ELSE s

RECURSIVE RStrip(_)
RStrip(s) ==
    IF s # <<>> /\ s[Len(s)] \in Space THEN RStrip(SubSeq(s, 1, Len(s) - 1)) ELSE s

\* str.strip()
Strip(s) == RStrip(LStrip(s))

\* re.sub(r"\s+", rep, s): every maximal whitespace run becomes rep
RECURSIVE ReplaceRuns(_, _)
ReplaceRuns(s, rep) ==
    IF s = <<>> THEN <<>>
    ELSE IF Head(s) \in Space
         THEN rep \o ReplaceRuns(LStrip(s), rep)
         ELSE <<Head(s)>> \o ReplaceRuns(Tail(s), rep)

\* str.replace(old, new): leftmost non-overlapping occurrences, one pass
RECURSIVE Replace(_, _, _)
Replace(s, old, new) ==
    IF Len(s) < Len(old) THEN s
    ELSE IF SubSeq(s, 1, Len(old)) = old
         THEN new \o Replace(SubSeq(s, Len(old) + 1, Len(s)), old, new)
         ELSE <<Head(s)>> \o Replace(Tail(s), old, new)

RECURSIVE TrailingZeros(_)
TrailingZeros(s) ==
    IF s # <<>> /\ s[Len(s)] = "0" THEN 1 + TrailingZeros(SubSeq(s, 1, Len(s) - 1)) ELSE 0

\* re.sub(r"\.0+$", "", s)
StripDotZeros(s) ==
    LET k == TrailingZeros(s) IN
    IF k >= 1 /\ Len(s) > k /\ s[Len(s) - k] = "."
    THEN SubSeq(s, 1, Len(s) - k - 1)
    ELSE s

DigitChars == <<"0", "1", "2", "3", "4", "5", "6", "7", "8", "9">>

RECURSIVE NatStr(_)
NatStr(n) == IF n < 10 THEN <<DigitChars[n + 1]>>
             ELSE NatStr(n \div 10) \o <<DigitChars[(n % 10) + 1]>>

\* str(int)
IntStr(n) == IF n < 0 THEN <<"-">> \o NatStr(0 - n) ELSE NatStr(n)

IsDigit(c) == \E i \in DOMAIN DigitChars : DigitChars[i] = c
DigitVal(c) == (CHOOSE i \in DOMAIN DigitChars : DigitChars[i] = c) - 1

RECURSIVE ParseNat(_)
ParseNat(s) == IF s = <<>> THEN 0
               ELSE ParseNat(SubSeq(s, 1, Len(s) - 1)) * 10 + DigitVal(s[Len(s)])

AllDigits(s) == s # <<>> /\ \A i \in DOMAIN s : IsDigit(s[i])

\* str(x) of a cell, as Series.astype(str) and str() give it
StrOf(c) ==
    CASE c.t = "str" -> c.s
      [] c.t = "num" -> IF c.f = <<>> THEN IntStr(c.n) ELSE IntStr(c.n) \o <<".">> \o c.f
      [] c.t = "flt" -> IntStr(c.w) \o <<".", "0">>
      [] c.t = "None" -> <<"N", "o", "n", "e">>
      [] OTHER -> <<"n", "a", "n">>

----------------------------------------------------------------------------
(* Identifier normalizers *)

\* utils.normalize_names on one element: fillna(""), astype(str), strip,
\* collapse whitespace runs, lower
normalize_names(c) ==
    LET filled == IF IsNull(c) THEN Txt(<<>>) ELSE c
    IN  Txt(Lower(ReplaceRuns(Strip(StrOf(filled)), <<" ">>)))

\* utils_pro.normalize_one
normalize_one(c) ==
    IF c.t # "str" THEN Txt(<<>>)
    ELSE Txt(Replace(Replace(Replace(Lower(Strip(c.s)), <<" ", " ">>, <<" ">>),
                             <<EmDash>>, <<"-">>),
                     <<EnDash>>, <<"-">>))

----------------------------------------------------------------------------
(* Data frames *)

Frame(cols, rows) == [cols |-> cols, rows |-> rows]

IsEmpty(df) == Len(df.rows) = 0

\* df[mask]: the rows whose entry of the boolean mask is true, in order
Where(df, mask) ==
    LET idx == SelectSeq([i \in DOMAIN df.rows |-> i], LAMBDA i : mask[i])
    IN  Frame(df.cols, [n \in DOMAIN idx |-> df.rows[idx[n]]])

\* df[c] = series: assignment of a whole column
SetCol(df, c, series) ==
    Frame(df.cols \cup {c},
          [i \in DOMAIN df.rows |->
              [k \in df.cols \cup {c} |->
                  IF k = c THEN series[i] ELSE df.rows[i][k]]])

\* df.rename(columns={old: new})
Rename(df, old, new) ==
    LET cols == (df.cols \ {old}) \cup {new}
    IN  Frame(cols,
              [i \in DOMAIN df.rows |->
                  [k \in cols |-> IF k = new THEN df.rows[i][old] ELSE df.rows[i][k]]])

\* df[df["year"] == int(year)]: a null year compares unequal
YearIs(df, y) == Where(df, [i \in DOMAIN df.rows |-> df.rows[i]["year"] = Num(y)])

\* the characters of the column labels of the model
Spelling ==
    ("year" :> <<"y", "e", "a", "r">>)
    @@ ("geo_key" :> <<"g", "e", "o", "_", "k", "e", "y">>)
    @@ ("riding_num" :> <<"r", "i", "d", "i", "n", "g", "_", "n", "u", "m">>)
    @@ ("riding_name" :> <<"r", "i", "d", "i", "n", "g", "_", "n", "a", "m", "e">>)
    @@ ("geometry" :> <<"g", "e", "o", "m", "e", "t", "r", "y">>)
    @@ ("Riding_Name" :> <<"R", "i", "d", "i", "n", "g", "_", "N", "a", "m", "e">>)
    @@ ("RIDING_NAME" :> <<"R", "I", "D", "I", "N", "G", "_", "N", "A", "M", "E">>)
    @@ ("RIDING_NUM" :> <<"R", "I", "D", "I", "N", "G", "_", "N", "U", "M">>)
    @@ ("ward" :> <<"w", "a", "r", "d">>)
    @@ ("election_year" :> <<"e", "l", "e", "c", "t", "i", "o", "n", "_", "y", "e", "a", "r">>)
    @@ ("riding_id" :> <<"r", "i", "d", "i", "n", "g", "_", "i", "d">>)
    @@ ("name" :> <<"n", "a", "m", "e">>)
    @@ ("voter_participation_pct" :> <<"v", "o", "t", "e", "r", "_", "p", "a", "r", "t", "i", "c", "i", "p", "a", "t", "i", "o", "n", "_", "p", "c", "t">>)
    @@ ("Year" :> <<"Y", "e", "a", "r">>)
    @@ ("FEDUID" :> <<"F", "E", "D", "U", "I", "D">>)
    @@ ("feduid" :> <<"f", "e", "d", "u", "i", "d">>)
    @@ ("FEDNAME" :> <<"F", "E", "D", "N", "A", "M", "E">>)
    @@ ("fedname" :> <<"f", "e", "d", "n", "a", "m", "e">>)
    @@ ("ELECTION_YEAR" :> <<"E", "L", "E", "C", "T", "I", "O", "N", "_", "Y", "E", "A", "R">>)
    @@ ("ED_NUM" :> <<"E", "D", "_", "N", "U", "M">>)
    @@ ("ed_num" :> <<"e", "d", "_", "n", "u", "m">>)
    @@ ("Province" :> <<"P", "r", "o", "v", "i", "n", "c", "e">>)
    @@ ("Electoral District Name" :> <<"E", "l", "e", "c", "t", "o", "r", "a", "l", " ", "D", "i", "s", "t", "r", "i", "c", "t", " ", "N", "a", "m", "e">>)
    @@ ("Electoral District Number" :> <<"E", "l", "e", "c", "t", "o", "r", "a", "l", " ", "D", "i", "s", "t", "r", "i", "c", "t", " ", "N", "u", "m", "b", "e", "r">>)
    @@ ("Population" :> <<"P", "o", "p", "u", "l", "a", "t", "i", "o", "n">>)
    @@ ("Electors" :> <<"E", "l", "e", "c", "t", "o", "r", "s">>)
    @@ ("Voter Turnout (%)" :> <<"V", "o", "t", "e", "r", " ", "T", "u", "r", "n", "o", "u", "t", " ", "(", "%", ")">>)
    @@ ("Elected Candidate" :> <<"E", "l", "e", "c", "t", "e", "d", " ", "C", "a", "n", "d", "i", "d", "a", "t", "e">>)
    @@ ("Riding" :> <<"R", "i", "d", "i", "n", "g">>)
    @@ ("province" :> <<"p", "r", "o", "v", "i", "n", "c", "e">>)
    @@ ("population" :> <<"p", "o", "p", "u", "l", "a", "t", "i", "o", "n">>)
    @@ ("electors" :> <<"e", "l", "e", "c", "t", "o", "r", "s">>)
    @@ ("elected_candidate" :> <<"e", "l", "e", "c", "t", "e", "d", "_", "c", "a", "n", "d", "i", "d", "a", "t", "e">>)

Spell(label) == Spelling[label]
Unspell(chars) == CHOOSE l \in DOMAIN Spelling : Spelling[l] = chars

\* sub in s
RECURSIVE Contains(_, _)
Contains(s, sub) ==
    IF Len(s) < Len(sub) THEN FALSE
    ELSE IF SubSeq(s, 1, Len(sub)) = sub THEN TRUE
    ELSE Contains(Tail(s), sub)

\* label.strip().lower()
LabelLower(c) == Unspell(Lower(Strip(Spell(c))))

\* "name" in label.lower()
HasName(c) == Contains(Lower(Spell(c)), <<"n", "a", "m", "e">>)

\* code point order of the characters of the model
CharOrder == <<"\t", " ", "-", ".">> \o DigitChars \o UpperChars \o <<"_">> \o
             LowerChars \o <<EnDash, EmDash>>
Rank(c) == CHOOSE i \in DOMAIN CharOrder : CharOrder[i] = c

RECURSIVE LexLeq(_, _)
LexLeq(a, b) ==
    IF a = <<>> THEN TRUE
    ELSE IF b = <<>> THEN FALSE
    ELSE IF Head(a) = Head(b) THEN LexLeq(Tail(a), Tail(b))
    ELSE Rank(Head(a)) < Rank(Head(b))

\* the distinct non-null keys of a frame in sorted order, as groupby(by)
\* visits them (sort=True, dropna=True)
RECURSIVE SortedCells(_)
SortedCells(S) ==
    IF S = {} THEN <<>>
    ELSE LET m == CHOOSE x \in S : \A y \in S : LexLeq(StrOf(x), StrOf(y))
         IN  <<m>> \o SortedCells(S \ {m})

GroupKeys(df, by) ==
    SortedCells({df.rows[i][by] : i \in DOMAIN df.rows} \ {None, NaN})

KeyCells(df, by) == {df.rows[i][by] : i \in DOMAIN df.rows}

\* Series.duplicated(keep=False).any()
HasDuplicates(df, by) ==
    \E i, j \in DOMAIN df.rows : i # j /\ df.rows[i][by] = df.rows[j][by]

\* mutant: the union keeps the first geometry of the group only
UnionGeomFirstOnly(rows) == Geom(rows[1]["geometry"].g, FALSE)

\* unary_union of the geometries of a group of rows
UnionGeom(rows) == Geom(UNION {rows[i]["geometry"].g : i \in DOMAIN rows}, FALSE)

\* aggfunc "first": the first non-null value of the column in the group
FirstValid(rows, c) ==
    IF \E i \in DOMAIN rows : ~IsNull(rows[i][c])
    THEN rows[CHOOSE i \in DOMAIN rows :
                 ~IsNull(rows[i][c]) /\ \A j \in 1..(i - 1) : IsNull(rows[j][c])][c]
    ELSE NaN

\* GeoDataFrame(view[keep]).dissolve(by=by, as_index=False)
Dissolve(df, by, keep) ==
    LET keys == GroupKeys(df, by)
        grp(k) == SelectSeq(df.rows, LAMBDA r : r[by] = k)
    IN  Frame(keep,
              [n \in DOMAIN keys |->
                  [c \in keep |->
                      IF c = by THEN keys[n]
                      ELSE IF c = "geometry" THEN UnionGeom(grp(keys[n]))
                      ELSE FirstValid(grp(keys[n]), c)]])

\* mutant: the except branch leaves the frame as it is
ManualUnionSkipped(df, by) == df

\* the except branch: per key the first row of the group with the union geometry
ManualUnion(df, by) ==
    LET keys == GroupKeys(df, by)
        grp(k) == SelectSeq(df.rows, LAMBDA r : r[by] = k)
    IN  Frame(df.cols,
              [n \in DOMAIN keys |->
                  [c \in df.cols |->
                      IF c = by THEN keys[n]
                      ELSE IF c = "geometry" THEN UnionGeom(grp(keys[n]))
                      ELSE grp(keys[n])[1][c]]])

RECURSIVE Flatten(_)
Flatten(ss) == IF ss = <<>> THEN <<>> ELSE Head(ss) \o Flatten(Tail(ss))

\* mutant: how="inner", a left row without a match is dropped
MergeInner(left, right, on) ==
    LET common == (left.cols \cap right.cols) \ {on}
        lname(c) == IF c \in common THEN c \o "_x" ELSE c
        rname(c) == IF c \in common THEN c \o "_y" ELSE c
        lcols == {lname(c) : c \in left.cols \ {on}}
        rcols == {rname(c) : c \in right.cols \ {on}}
        cols == {on} \cup lcols \cup rcols
        lsrc(k) == CHOOSE c \in left.cols \ {on} : lname(c) = k
        rsrc(k) == CHOOSE c \in right.cols \ {on} : rname(c) = k
        joined(l, r) == [k \in cols |->
                            IF k = on THEN l[on]
                            ELSE IF k \in lcols THEN l[lsrc(k)]
                            ELSE r[rsrc(k)]]
        hits(l) == SelectSeq(right.rows, LAMBDA r : r[on] = l[on])
        out(l) == [n \in DOMAIN hits(l) |-> joined(l, hits(l)[n])]
    IN  Frame(cols, Flatten([i \in DOMAIN left.rows |-> out(left.rows[i])]))

\* left.merge(right, on=on, how="left"): columns other than the key that
\* are in both frames get the suffixes _x and _y
Merge(left, right, on) ==
    LET common == (left.cols \cap right.cols) \ {on}
        lname(c) == IF c \in common THEN c \o "_x" ELSE c
        rname(c) == IF c \in common THEN c \o "_y" ELSE c
        lcols == {lname(c) : c \in left.cols \ {on}}
        rcols == {rname(c) : c \in right.cols \ {on}}
        cols == {on} \cup lcols \cup rcols
        lsrc(k) == CHOOSE c \in left.cols \ {on} : lname(c) = k
        rsrc(k) == CHOOSE c \in right.cols \ {on} : rname(c) = k
        joined(l, r) == [k \in cols |->
                            IF k = on THEN l[on]
                            ELSE IF k \in lcols THEN l[lsrc(k)]
                            ELSE r[rsrc(k)]]
        alone(l) == [k \in cols |->
                        IF k = on THEN l[on]
                        ELSE IF k \in lcols THEN l[lsrc(k)]
                        ELSE NaN]
        hits(l) == SelectSeq(right.rows, LAMBDA r : r[on] = l[on])
        out(l) == IF hits(l) = <<>> THEN <<alone(l)>>
                  ELSE [n \in DOMAIN hits(l) |-> joined(l, hits(l)[n])]
    IN  Frame(cols, Flatten([i \in DOMAIN left.rows |-> out(left.rows[i])]))

\* merged["geometry"] = merged["geometry"].simplify(...)
Simplify(df) ==
    SetCol(df, "geometry",
           [i \in DOMAIN df.rows |-> Geom(df.rows[i]["geometry"].g, TRUE)])

----------------------------------------------------------------------------
(* prepare_map_df: helpers *)

Pending == [kind |-> "pending"]
Dataset(df) == [kind |-> "dataset", data |-> df]
Raised(msg) == [kind |-> "error", msg |-> msg]

NoFrame == Frame({}, <<>>)

CandidateKeys == <<"riding_id", "riding_name", "riding_num", "name">>

\* the first key of the list that is a column of both frames, "" if none
FirstShared(keys, gcols, dcols) ==
    IF \E i \in DOMAIN keys : keys[i] \in gcols /\ keys[i] \in dcols
    THEN keys[CHOOSE i \in DOMAIN keys :
                 /\ keys[i] \in gcols /\ keys[i] \in dcols
                 /\ \A j \in 1..(i - 1) : ~(keys[j] \in gcols /\ keys[j] \in dcols)]
    ELSE ""

\* {c.lower(): c for c in columns}[key]; the frames of the model hold no two
\* labels that differ in case only
ByLower(cols, key) == CHOOSE c \in cols : LabelLower(c) = key
InLower(cols, key) == \E c \in cols : LabelLower(c) = key

\* mutant: riding_num is searched case-insensitively as well
detect_join_key_with_num(gcols, dcols) ==
    LET possible == <<"riding_id", "riding_name", "riding_num", "name">>
        exact == FirstShared(possible, gcols, dcols)
        ci(i) == InLower(gcols, possible[i]) /\ InLower(dcols, possible[i])
    IN  IF exact # "" THEN [kind |-> "key", key |-> exact]
        ELSE IF \E i \in DOMAIN possible : ci(i)
        THEN LET i == CHOOSE n \in DOMAIN possible : ci(n) /\ \A j \in 1..(n - 1) : ~ci(j)
             IN  [kind |-> "pair", g |-> ByLower(gcols, possible[i]),
                                   d |-> ByLower(dcols, possible[i])]
        ELSE [kind |-> "none"]

\* utils.detect_join_key
detect_join_key(gcols, dcols) ==
    LET possible == <<"riding_id", "riding_name", "name">>
        exact == FirstShared(possible, gcols, dcols)
        ci(i) == InLower(gcols, possible[i]) /\ InLower(dcols, possible[i])
    IN  IF exact # "" THEN [kind |-> "key", key |-> exact]
        ELSE IF \E i \in DOMAIN possible : ci(i)
        THEN LET i == CHOOSE n \in DOMAIN possible : ci(n) /\ \A j \in 1..(n - 1) : ~ci(j)
             IN  [kind |-> "pair", g |-> ByLower(gcols, possible[i]),
                                   d |-> ByLower(dcols, possible[i])]
        ELSE [kind |-> "none"]

\* lines 322-328: the normalization of one join-key cell
NormKeyCell(key, c) ==
    IF HasName(key) THEN normalize_names(Txt(StrOf(c)))
    ELSE Txt(Strip(StrOf(c)))

\* lines 322-328: the normalized join-key column of a frame
NormKeys(df, key) == [i \in DOMAIN df.rows |-> NormKeyCell(key, df.rows[i][key])]

\* lines 331-335: missing_mask
MissingKey(c) ==
    \/ IsNull(c)
    \/ Len(StrOf(c)) = 0
    \/ Lower(StrOf(c)) = <<"n", "o", "n", "e">>

\* the difference taken the other way round
MinusReversed(a, b) ==
    IF a.t = "num" /\ b.t = "num" /\ a.f = <<>> /\ b.f = <<>> THEN Num(b.n - a.n) ELSE NaN

\* a - b on two numeric cells, NaN when either is missing
Minus(a, b) ==
    IF a.t = "num" /\ b.t = "num" /\ a.f = <<>> /\ b.f = <<>> THEN Num(a.n - b.n) ELSE NaN

\* df.sort_values([key, "year"]) then groupby(key)[pct].shift(1), for row i:
\* the turnout of the row just before it in its group (null keys form no group)
PrevParticipation(df, key, i) ==
    LET r == df.rows[i]
        before(j) ==
            /\ j # i
            /\ df.rows[j][key] = r[key]
            /\ df.rows[j]["year"].t = "num"
            /\ \/ r["year"].t # "num"
               \/ df.rows[j]["year"].n < r["year"].n
               \/ df.rows[j]["year"].n = r["year"].n /\ j < i
        later(j, k) ==
            \/ df.rows[j]["year"].n > df.rows[k]["year"].n
            \/ df.rows[j]["year"].n = df.rows[k]["year"].n /\ j >= k
        cand == {j \in DOMAIN df.rows : before(j)}
    IN  IF IsNull(r[key]) \/ cand = {} THEN NaN
        ELSE df.rows[CHOOSE j \in cand : \A k \in cand : later(j, k)]
                 ["voter_participation_pct"]

\* lines 384-386 / 401-403: the frame prev
PrevFrame(df, key, y) ==
    LET idx == SelectSeq([i \in DOMAIN df.rows |-> i],
                         LAMBDA i : df.rows[i]["year"] = Num(y))
    IN  Frame({key, "prev_participation"},
              [n \in DOMAIN idx |->
                  [c \in {key, "prev_participation"} |->
                      IF c = key THEN df.rows[idx[n]][key]
                      ELSE PrevParticipation(df, key, idx[n])]])

\* lines 377-410 for one key column: the merged frame with the delta
AttachDelta(merged, df, key, y) ==
    IF key \in merged.cols
    THEN LET m == Merge(merged, PrevFrame(df, key, y), key)
         IN  SetCol(m, "delta_pct",
                    [i \in DOMAIN m.rows |->
                        Minus(m.rows[i]["voter_participation_pct"],
                              m.rows[i]["prev_participation"])])
    ELSE merged

\* lines 377-410: "" when the step goes through, else the missing column
DeltaKeyError(merged, df) ==
    IF "voter_participation_pct" \notin df.cols THEN ""
    ELSE IF "riding_id" \in df.cols
         THEN IF "riding_id" \in merged.cols /\ "voter_participation_pct" \notin merged.cols
              THEN "voter_participation_pct" ELSE ""
    ELSE IF "riding_name" \notin df.cols THEN "riding_name"
    ELSE IF "riding_name" \in merged.cols /\ "voter_participation_pct" \notin merged.cols
         THEN "voter_participation_pct" ELSE ""

ComputeDelta(merged, df, y) ==
    IF "voter_participation_pct" \notin df.cols THEN merged
    ELSE IF "riding_id" \in df.cols THEN AttachDelta(merged, df, "riding_id", y)
    ELSE AttachDelta(merged, df, "riding_name", y)

----------------------------------------------------------------------------
(* Inputs of prepare_map_df *)

\* most rows of a geometry source and of a turnout source
MaxGeo == 3
MaxTurn == 2

\* "<year>__<id>"
KeyText(y, id) == IntStr(y) \o <<"_", "_">> \o id

\* what one geometry record says: year, district id, district name, geo_key
GeoSpecs == <<
    [yr |-> Num(2015), id |-> Txt(<<"4", "2">>), nm |-> Txt(<<"A", "b">>),
     gk |-> Txt(KeyText(2015, <<"4", "2">>))],
    [yr |-> Num(2015), id |-> Txt(<<" ", "7">>), nm |-> Txt(<<"a", "b", " ">>),
     gk |-> Txt(KeyText(2015, <<"7">>))],
    [yr |-> Num(2015), id |-> Txt(<<>>), nm |-> Txt(<<" ">>), gk |-> Txt(<<>>)],
    [yr |-> Num(2015), id |-> None, nm |-> None, gk |-> None],
    [yr |-> Num(2019), id |-> Txt(<<"4", "2">>), nm |-> Txt(<<"A", "b">>),
     gk |-> Txt(KeyText(2019, <<"4", "2">>))] >>

\* what one turnout record says
TurnSpecs == <<
    [yr |-> Num(2015), id |-> Txt(<<"4", "2">>), nm |-> Txt(<<"a", "b">>),
     gk |-> Txt(KeyText(2015, <<"4", "2">>)), pct |-> Num(61)],
    [yr |-> Num(2015), id |-> Txt(<<"4", "2">>), nm |-> Txt(<<"A", "B">>),
     gk |-> Txt(KeyText(2015, <<"4", "2">>)), pct |-> Num(55)],
    [yr |-> Num(2011), id |-> Txt(<<"4", "2">>), nm |-> Txt(<<"a", "b">>),
     gk |-> Txt(KeyText(2011, <<"4", "2">>)), pct |-> Num(50)],
    [yr |-> Num(2015), id |-> Txt(<<"9">>), nm |-> Txt(<<"c", "d">>),
     gk |-> Txt(KeyText(2015, <<"9">>)), pct |-> NaN] >>

\* the cell of a record under a column label
SpecCell(label, sp, part) ==
    CASE LabelLower(label) \in {"year", "election_year"} -> sp.yr
      [] LabelLower(label) = "geo_key" -> sp.gk
      [] LabelLower(label) \in {"riding_num", "riding_id", "ward"} -> sp.id
      [] LabelLower(label) \in {"riding_name", "name"} -> sp.nm
      [] label = "geometry" -> Geom({part}, FALSE)
      [] OTHER -> sp.pct

MakeFrame(cols, specs, picks) ==
    Frame(cols, [i \in DOMAIN picks |->
                    [c \in cols |-> SpecCell(c, specs[picks[i]], i)]])

\* the picks of at most max records, in any order and with repetition
Picks(n, max) == UNION {[1..k -> 1..n] : k \in 0..max}

\* the same up to order: geometry records are drawn in the order of GeoSpecs
\* (their order only decides which record of a key comes first)
OrderedPicks(n, max) ==
    {p \in Picks(n, max) : \A i, j \in DOMAIN p : i < j => p[i] <= p[j]}

GeoSchemas == {
    {"year", "geo_key", "riding_num", "riding_name", "geometry"},
    {"year", "riding_name", "geometry"},
    {"year", "Riding_Name", "geometry"},
    {"year", "RIDING_NUM", "geometry"},
    {"year", "riding_num", "geometry"},
    {"year", "ward", "geometry"},
    {"riding_name", "geometry"},
    {"election_year", "riding_id", "riding_name", "geometry"} }

TurnSchemas == {
    {"year", "geo_key", "riding_num", "riding_name", "voter_participation_pct"},
    {"year", "riding_name", "voter_participation_pct"},
    {"year", "RIDING_NAME", "voter_participation_pct"},
    {"year", "riding_num", "voter_participation_pct"},
    {"year", "RIDING_NUM", "voter_participation_pct"},
    {"year", "ward", "voter_participation_pct"},
    {"riding_name", "voter_participation_pct"},
    {"year", "riding_id", "riding_name", "voter_participation_pct"} }

\* the schema pairs that are run with every choice of records
FullPairs == {
    <<{"year", "geo_key", "riding_num", "riding_name", "geometry"},
      {"year", "geo_key", "riding_num", "riding_name", "voter_participation_pct"}>>,
    <<{"year", "riding_name", "geometry"},
      {"year", "riding_name", "voter_participation_pct"}>> }

RequestYears == {2015, 2019}
Hints == {"", "ward"}

InitJoin ==
    /\ \E gs \in GeoSchemas, ds \in TurnSchemas :
         \E gp \in OrderedPicks(Len(GeoSpecs), MaxGeo), tp \in Picks(Len(TurnSpecs), MaxTurn) :
            /\ <<gs, ds>> \notin FullPairs => gp = <<1>> /\ tp \in {<<1>>, <<1, 3>>}
            /\ gdf_all = MakeFrame(gs, GeoSpecs, gp)
            /\ df_fed = MakeFrame(ds, TurnSpecs, tp)
            /\ year \in RequestYears
            /\ hint \in Hints
            /\ <<gs, ds>> \in FullPairs => year = 2015 /\ hint = ""
    /\ gdf_0 = gdf_all
    /\ df_0 = df_fed
    /\ pc = "call"
    /\ view_gdf = NoFrame
    /\ df_loc = df_fed
    /\ df_shared = TRUE
    /\ df_year = NoFrame
    /\ join_key = ""
    /\ result = Pending

IdleJoin ==
    /\ gdf_all = NoFrame /\ df_fed = NoFrame /\ gdf_0 = NoFrame /\ df_0 = NoFrame
    /\ year = 0 /\ hint = "" /\ pc = "idle" /\ view_gdf = NoFrame
    /\ df_loc = NoFrame /\ df_shared = TRUE /\ df_year = NoFrame
    /\ join_key = "" /\ result = Pending

IdleNorm ==
    /\ nm_fn = "" /\ nm_in = None /\ nm_val = None /\ nm_prev = None /\ nm_cnt = 0

IdleKey ==
    /\ kb_src = None /\ kb_out = None

----------------------------------------------------------------------------
(* prepare_map_df, step by step *)

Return(df) == result' = Dataset(df) /\ pc' = "returned"
Raise(msg) == result' = Raised(msg) /\ pc' = "raised"

\* in-place assignment to the local df_fed reaches the caller's object while
\* the local name is still bound to it
AssignDf(df) ==
    /\ df_loc' = df
    /\ df_fed' = IF df_shared THEN df ELSE df_fed

\* lines 241-251 and the test of line 256
FilterYear ==
    /\ pc = "call"
    /\ LET g == IF "election_year" \in gdf_all.cols /\ "year" \notin gdf_all.cols
                THEN Rename(gdf_all, "election_year", "year")
                ELSE gdf_all
       IN  IF "year" \notin g.cols
           THEN Raise("GPKG missing 'year' column.") /\ UNCHANGED view_gdf
           ELSE /\ view_gdf' = YearIs(g, year)
                /\ IF IsEmpty(view_gdf')
                   THEN Return(view_gdf')
                   ELSE /\ pc' = IF "geo_key" \in g.cols /\ "geo_key" \in df_loc.cols
                                 THEN "preferred" ELSE "fallback"
                        /\ UNCHANGED result
    /\ UNCHANGED <<normVars, keyVars>>
    /\ UNCHANGED <<gdf_all, df_fed, gdf_0, df_0, year, hint, df_loc, df_shared,
                   df_year, join_key>>

\* lines 257-260
PreferredFilter ==
    /\ pc = "preferred"
    /\ view_gdf' = Where(view_gdf, [i \in DOMAIN view_gdf.rows |->
                                        Len(StrOf(view_gdf.rows[i]["geo_key"])) > 0])
    /\ IF IsEmpty(view_gdf')
       THEN pc' = "fallback" /\ UNCHANGED <<result, df_year, join_key>>
       ELSE IF "year" \notin df_loc.cols
            THEN Raise("KeyError: 'year'") /\ UNCHANGED <<df_year, join_key>>
            ELSE /\ df_year' = YearIs(df_loc, year)
                 /\ join_key' = "geo_key"
                 /\ pc' = "preferred_dedup"
                 /\ UNCHANGED result
    /\ UNCHANGED <<normVars, keyVars>>
    /\ UNCHANGED <<gdf_all, df_fed, gdf_0, df_0, year, hint, df_loc, df_shared>>

\* lines 262-278 and 340-364: dissolve, or the manual union when it raises
Deduplicate(df, by, fails) ==
    IF ~HasDuplicates(df, by) THEN df
    ELSE IF fails THEN ManualUnion(df, by)
    ELSE Dissolve(df, by, {by, "geometry", "year"})

\* lines 262-278
PreferredDedup ==
    /\ pc = "preferred_dedup"
    /\ \E fails \in IF HasDuplicates(view_gdf, "geo_key") THEN BOOLEAN ELSE {FALSE} :
          view_gdf' = Deduplicate(view_gdf, "geo_key", fails)
    /\ pc' = "preferred_merge"
    /\ UNCHANGED <<normVars, keyVars>>
    /\ UNCHANGED <<gdf_all, df_fed, gdf_0, df_0, year, hint, df_loc, df_shared,
                   df_year, join_key, result>>

\* lines 280-290
PreferredMerge ==
    /\ pc = "preferred_merge"
    /\ \E simplifyFails \in BOOLEAN :
          LET merged == Merge(view_gdf, df_year, "geo_key")
          IN  Return(IF simplifyFails THEN merged ELSE Simplify(merged))
    /\ UNCHANGED <<normVars, keyVars>>
    /\ UNCHANGED <<gdf_all, df_fed, gdf_0, df_0, year, hint, view_gdf, df_loc,
                   df_shared, df_year, join_key>>

\* lines 295-320
DetectJoin ==
    /\ pc = "fallback"
    /\ LET preferred_keys == (IF hint # "" THEN <<hint>> ELSE <<>>) \o CandidateKeys
           first == FirstShared(preferred_keys, view_gdf.cols, df_loc.cols)
           detected == detect_join_key(view_gdf.cols, df_loc.cols)
       IN  IF first # ""
           THEN /\ join_key' = first
                /\ pc' = "normalize"
                /\ UNCHANGED <<df_loc, df_shared, result>>
           ELSE IF detected.kind = "pair"
           THEN /\ join_key' = detected.g
                /\ pc' = "normalize"
                /\ IF detected.d \in df_loc.cols /\ detected.g # detected.d
                   THEN df_loc' = Rename(df_loc, detected.d, detected.g)
                        /\ df_shared' = FALSE
                   ELSE UNCHANGED <<df_loc, df_shared>>
                /\ UNCHANGED result
           ELSE IF detected.kind = "key"
           THEN /\ join_key' = detected.key
                /\ pc' = "normalize"
                /\ UNCHANGED <<df_loc, df_shared, result>>
           ELSE /\ Raise("No valid join key found.")
                /\ UNCHANGED <<join_key, df_loc, df_shared>>
    /\ UNCHANGED <<normVars, keyVars>>
    /\ UNCHANGED <<gdf_all, df_fed, gdf_0, df_0, year, hint, view_gdf, df_year>>

\* lines 322-338
NormalizeKeys ==
    /\ pc = "normalize"
    /\ LET g == SetCol(view_gdf, join_key, NormKeys(view_gdf, join_key))
           d == SetCol(df_loc, join_key, NormKeys(df_loc, join_key))
       IN  /\ AssignDf(d)
           /\ view_gdf' = Where(g, [i \in DOMAIN g.rows |-> ~MissingKey(g.rows[i][join_key])])
           /\ IF IsEmpty(view_gdf')
              THEN Return(view_gdf')
              ELSE pc' = "fallback_dedup" /\ UNCHANGED result
    /\ UNCHANGED <<normVars, keyVars>>
    /\ UNCHANGED <<gdf_all, gdf_0, df_0, year, hint, df_shared, df_year, join_key>>

\* lines 340-364
FallbackDedup ==
    /\ pc = "fallback_dedup"
    /\ \E fails \in IF HasDuplicates(view_gdf, join_key) THEN BOOLEAN ELSE {FALSE} :
          view_gdf' = Deduplicate(view_gdf, join_key, fails)
    /\ pc' = "fallback_merge"
    /\ UNCHANGED <<normVars, keyVars>>
    /\ UNCHANGED <<gdf_all, df_fed, gdf_0, df_0, year, hint, df_loc, df_shared,
                   df_year, join_key, result>>

\* lines 366-420
FallbackMerge ==
    /\ pc = "fallback_merge"
    /\ IF "year" \notin df_loc.cols
       THEN Raise("KeyError: 'year'") /\ UNCHANGED df_year
       ELSE /\ df_year' = YearIs(df_loc, year)
            /\ LET merged == Merge(view_gdf, df_year', join_key)
                   missing == DeltaKeyError(merged, df_loc)
               IN  IF missing # ""
                   THEN Raise("KeyError: " \o missing)
                   ELSE \E simplifyFails \in BOOLEAN :
                           LET out == ComputeDelta(merged, df_loc, year)
                           IN  Return(IF simplifyFails THEN out ELSE Simplify(out))
    /\ UNCHANGED <<normVars, keyVars>>
    /\ UNCHANGED <<gdf_all, df_fed, gdf_0, df_0, year, hint, view_gdf, df_loc,
                   df_shared, join_key>>

Next ==
    \/ FilterYear
    \/ PreferredFilter
    \/ PreferredDedup
    \/ PreferredMerge
    \/ DetectJoin
    \/ NormalizeKeys
    \/ FallbackDedup
    \/ FallbackMerge

Init == InitJoin /\ IdleNorm /\ IdleKey
Spec == Init /\ [][Next]_vars

----------------------------------------------------------------------------
(* Loaders: utils.load_gpkg and utils.load_federal_csv *)

\* find_col_by_keywords takes a list of labels or None, returns a label or None
ColList(items) == [isnone |-> FALSE, items |-> items]
NoCols == [isnone |-> TRUE, items |-> <<>>]
Col(c) == [found |-> TRUE, col |-> c]
NoCol == [found |-> FALSE]

\* any(kw.lower() in low for kw in keywords)
KeywordIn(low, keywords) ==
    \E k \in DOMAIN keywords : Contains(low, Lower(keywords[k]))

\* a search in which the order of the keywords decides
RECURSIVE FirstMatchByKeyword(_, _)
FirstMatchByKeyword(items, keywords) ==
    IF keywords = <<>> THEN NoCol
    ELSE LET hits == SelectSeq(items, LAMBDA c :
                         Contains(Lower(Strip(Spell(c))), Lower(Head(keywords))))
         IN  IF hits # <<>> THEN Col(Head(hits))
             ELSE FirstMatchByKeyword(items, Tail(keywords))

RECURSIVE FirstMatch(_, _)
FirstMatch(items, keywords) ==
    IF items = <<>> THEN NoCol
    ELSE IF KeywordIn(Lower(Strip(Spell(Head(items)))), keywords)
         THEN Col(Head(items))
         ELSE FirstMatch(Tail(items), keywords)

find_col_by_keywords(cols, keywords) ==
    IF cols.isnone THEN NoCol ELSE FirstMatch(cols.items, keywords)

\* pd.to_numeric(errors="coerce").astype("Int64") on one element
ToInt64(c) ==
    CASE c.t = "num" -> c
      [] c.t = "flt" -> Num(c.w)
      [] c.t = "str" ->
           LET s == Strip(c.s) IN
           IF AllDigits(s) THEN Num(ParseNat(s))
           ELSE IF AllDigits(StripDotZeros(s)) THEN Num(ParseNat(StripDotZeros(s)))
           ELSE NaN
      [] OTHER -> NaN

\* the separator of the composite key
KeySep == <<"_", "_">>

\* the year part of load_gpkg's key
_safe_str_blank(x) == <<>>
_safe_str(x) ==
    IF IsNull(x) THEN <<>>
    ELSE IF x.t = "num" THEN IntStr(x.n)
    ELSE IF x.t = "flt" THEN IntStr(x.w)
    ELSE IF x.t = "str" /\ AllDigits(Strip(x.s)) THEN NatStr(ParseNat(Strip(x.s)))
    ELSE Strip(StripDotZeros(StrOf(x)))

\* the year part of load_federal_csv's key
_safe_str_intlike(x) ==
    IF IsNull(x) THEN <<>>
    ELSE IF x.t = "num" /\ x.f = <<>> THEN IntStr(x.n)
    ELSE StripDotZeros(Strip(StrOf(x)))

\* r.get(label, ''): the cell, or the empty text when the column is absent
Get(row, label) == IF label \in DOMAIN row THEN row[label] ELSE Txt(<<>>)

\* f"{year part}__{str(r.get('riding_num', '')).strip()}"
GeoKey(yearText, row) == Txt(yearText \o KeySep \o Strip(StrOf(Get(row, "riding_num"))))

\* gdf.columns.str.strip().str.lower()
LowerLabels(df) ==
    LET cols == {LabelLower(c) : c \in df.cols}
    IN  Frame(cols,
              [i \in DOMAIN df.rows |->
                  [k \in cols |->
                      df.rows[i][CHOOSE c \in df.cols : LabelLower(c) = k]]])

id_candidates == <<"riding_num", "feduid", "fed_id", "fednum", "fed_num", "ed_id", "ed_num">>
name_candidates == <<"riding_name", "fedname", "enname", "fedename", "ed_namee",
                     "ed_name_en", "ed_name_e", "ename">>

\* next((c for c in candidates if c in columns), None)
FirstPresent(candidates, cols) ==
    LET hits == SelectSeq(candidates, LAMBDA c : c \in cols)
    IN  IF hits = <<>> THEN NoCol ELSE Col(Head(hits))

\* lines 92-93
YearLabel(g) ==
    IF "election_year" \in g.cols /\ "year" \notin g.cols
    THEN Rename(g, "election_year", "year") ELSE g

\* lines 95-108
IdFromAlias(g) ==
    LET id_col == FirstPresent(id_candidates, g.cols) IN
    IF "riding_num" \in g.cols THEN g
    ELSE SetCol(g, "riding_num",
                [i \in DOMAIN g.rows |->
                    IF id_col.found
                    THEN Txt(StripDotZeros(Strip(StrOf(g.rows[i][id_col.col]))))
                    ELSE None])

\* lines 110-117
NameFromAlias(g) ==
    LET name_col == FirstPresent(name_candidates, g.cols) IN
    IF "riding_name" \in g.cols THEN g
    ELSE SetCol(g, "riding_name",
                [i \in DOMAIN g.rows |->
                    IF name_col.found THEN g.rows[i][name_col.col] ELSE None])

\* lines 120-121 and 205-206
YearToInt64(d) ==
    IF "year" \in d.cols
    THEN SetCol(d, "year", [i \in DOMAIN d.rows |-> ToInt64(d.rows[i]["year"])])
    ELSE d

\* lines 132-135
GpkgGeoKey(g) ==
    SetCol(g, "geo_key",
           [i \in DOMAIN g.rows |-> GeoKey(_safe_str(Get(g.rows[i], "year")), g.rows[i])])

load_gpkg(raw) ==
    Dataset(GpkgGeoKey(YearToInt64(NameFromAlias(IdFromAlias(YearLabel(LowerLabels(raw)))))))

\* the header searches of load_federal_csv, in the order they are made
RoleKeywords == <<
    [role |-> "year",
     keywords |-> <<<<"y", "e", "a", "r">>>>],
    [role |-> "province",
     keywords |-> <<<<"p", "r", "o", "v", "i", "n", "c", "e">>,
                   <<"p", "r", "o", "v">>>>],
    [role |-> "riding_name",
     keywords |-> <<<<"e", "l", "e", "c", "t", "o", "r", "a", "l", " ", "d", "i", "s", "t", "r", "i", "c", "t", " ", "n", "a", "m", "e">>,
                   <<"r", "i", "d", "i", "n", "g">>,
                   <<"c", "i", "r", "c", "o", "n", "s", "c", "r", "i", "p", "t", "i", "o", "n">>,
                   <<"d", "i", "s", "t", "r", "i", "c", "t">>>>],
    [role |-> "riding_num",
     keywords |-> <<<<"e", "l", "e", "c", "t", "o", "r", "a", "l", " ", "d", "i", "s", "t", "r", "i", "c", "t", " ", "n", "u", "m", "b", "e", "r">>,
                   <<"n", "u", "m">>,
                   <<"n", "u", "m", "e", "r", "o">>,
                   <<"n", "u", "m", "b", "e", "r">>>>],
    [role |-> "population",
     keywords |-> <<<<"p", "o", "p", "u", "l", "a", "t", "i", "o", "n">>>>],
    [role |-> "electors",
     keywords |-> <<<<"e", "l", "e", "c", "t", "o", "r", "s">>,
                   <<"<U+00C3>", "<U+00A9>", "l", "e", "c", "t", "e", "u", "r", "s">>>>],
    [role |-> "voter_participation_pct",
     keywords |-> <<<<"v", "o", "t", "e", "r", " ", "t", "u", "r", "n", "o", "u", "t">>,
                   <<"p", "a", "r", "t", "i", "c", "i", "p", "a", "t", "i", "o", "n">>>>],
    [role |-> "elected_candidate",
     keywords |-> <<<<"e", "l", "e", "c", "t", "e", "d", " ", "c", "a", "n", "d", "i", "d", "a", "t", "e">>>>]
>>

\* col_map after the searches from the k-th on: a later search that finds the
\* same header replaces the earlier entry
RECURSIVE BuildColMap(_, _, _)
BuildColMap(raw_cols, k, col_map) ==
    IF k > Len(RoleKeywords) THEN col_map
    ELSE LET c == find_col_by_keywords(ColList(raw_cols), RoleKeywords[k].keywords)
             next == IF c.found
                     THEN [h \in DOMAIN col_map \cup {c.col} |->
                              IF h = c.col THEN RoleKeywords[k].role ELSE col_map[h]]
                     ELSE col_map
         IN  BuildColMap(raw_cols, k + 1, next)

\* df.rename(columns=col_map)
RenameAll(raw, col_map) ==
    LET new(h) == IF h \in DOMAIN col_map THEN col_map[h] ELSE h
        heads == {raw.order[k] : k \in DOMAIN raw.order}
        cols == {new(h) : h \in heads}
    IN  Frame(cols,
              [i \in DOMAIN raw.rows |->
                  [c \in cols |-> raw.rows[i][CHOOSE h \in heads : new(h) = c]]])

DropTrailingZeros(s) == SubSeq(s, 1, Len(s) - TrailingZeros(s))

RECURSIVE DigitPrefix(_)
DigitPrefix(s) ==
    IF s # <<>> /\ IsDigit(Head(s)) THEN <<Head(s)>> \o DigitPrefix(Tail(s)) ELSE <<>>

\* str.extract(r"([0-9]+(?:\.[0-9]+)?)") then pd.to_numeric(errors="coerce")
RECURSIVE FirstNumber(_)
FirstNumber(s) ==
    IF s = <<>> THEN NaN
    ELSE IF IsDigit(Head(s))
         THEN LET w == DigitPrefix(s)
                  rest == SubSeq(s, Len(w) + 1, Len(s))
                  fr == IF rest # <<>> /\ Head(rest) = "." THEN DigitPrefix(Tail(rest))
                        ELSE <<>>
              IN  Dec(ParseNat(w), DropTrailingZeros(fr))
         ELSE FirstNumber(Tail(s))

\* a parse that leaves decimal commas alone
ParsePctKeepComma(c) == FirstNumber(Replace(StrOf(c), <<"%">>, <<>>))

\* lines 210-219 on one element
ParsePct(c) == FirstNumber(Replace(Replace(StrOf(c), <<"%">>, <<>>), <<",">>, <<".">>))

\* Series.replace({"nan": None, "None": None, "none": None})
NullTokens(c) ==
    IF c \in {Txt(<<"n", "a", "n">>), Txt(<<"N", "o", "n", "e">>), Txt(<<"n", "o", "n", "e">>)}
    THEN None ELSE c

\* lines 189-190
CleanName(d) ==
    IF "riding_name" \in d.cols
    THEN SetCol(d, "riding_name",
                [i \in DOMAIN d.rows |-> normalize_names(d.rows[i]["riding_name"])])
    ELSE d

\* lines 193-202
CleanId(d) ==
    IF "riding_num" \in d.cols
    THEN SetCol(d, "riding_num",
                [i \in DOMAIN d.rows |->
                    Txt(StripDotZeros(Strip(StrOf(d.rows[i]["riding_num"]))))])
    ELSE IF "riding_name" \in d.cols
    THEN SetCol(d, "riding_num",
                [i \in DOMAIN d.rows |->
                    Txt(ReplaceRuns(normalize_names(d.rows[i]["riding_name"]).s, <<"_">>))])
    ELSE d

\* lines 209-219
CleanPct(d) ==
    IF "voter_participation_pct" \in d.cols
    THEN SetCol(d, "voter_participation_pct",
                [i \in DOMAIN d.rows |-> ParsePct(d.rows[i]["voter_participation_pct"])])
    ELSE d

\* line 222
NullIds(d) ==
    SetCol(d, "riding_num", [i \in DOMAIN d.rows |-> NullTokens(d.rows[i]["riding_num"])])

\* lines 223-226
CsvGeoKey(d) ==
    SetCol(d, "geo_key",
           [i \in DOMAIN d.rows |->
               GeoKey(_safe_str_intlike(Get(d.rows[i], "year")), d.rows[i])])

\* lines 222-228: reading a riding_num column that was never made is a KeyError
FinishCsv(d) ==
    IF "riding_num" \notin d.cols THEN Raised("KeyError: riding_num")
    ELSE Dataset(CsvGeoKey(NullIds(d)))

\* raw is the file as read: the header in file order and the rows as text
load_federal_csv(raw) ==
    FinishCsv(CleanPct(YearToInt64(CleanId(CleanName(
        RenameAll(raw, BuildColMap(raw.order, 1, <<>>)))))))

----------------------------------------------------------------------------
(* Applying a normalizer to its own output *)

MaxText == 5
MaxApply == 2

NormChars == {" ", "\t", "A", EmDash}

Texts(n) == UNION {[1..k -> NormChars] : k \in 0..n}

NormInputs == {None, NaN} \cup {Txt(s) : s \in Texts(MaxText)}

InitNorm ==
    /\ nm_fn \in {"normalize_names", "normalize_one"}
    /\ nm_in \in NormInputs
    /\ nm_val = nm_in
    /\ nm_prev = nm_in
    /\ nm_cnt = 0

ApplyNormalizeNames ==
    /\ nm_fn = "normalize_names"
    /\ nm_cnt < MaxApply
    /\ nm_prev' = nm_val
    /\ nm_val' = normalize_names(nm_val)
    /\ nm_cnt' = nm_cnt + 1
    /\ UNCHANGED <<nm_fn, nm_in>>
    /\ UNCHANGED <<joinVars, keyVars>>

ApplyNormalizeOne ==
    /\ nm_fn = "normalize_one"
    /\ nm_cnt < MaxApply
    /\ nm_prev' = nm_val
    /\ nm_val' = normalize_one(nm_val)
    /\ nm_cnt' = nm_cnt + 1
    /\ UNCHANGED <<nm_fn, nm_in>>
    /\ UNCHANGED <<joinVars, keyVars>>

NextNormalize ==
    \/ ApplyNormalizeNames
    \/ ApplyNormalizeOne

InitNormalize == IdleJoin /\ InitNorm /\ IdleKey
SpecNormalize == InitNormalize /\ [][NextNormalize]_vars

----------------------------------------------------------------------------
(* Loading the two sources and building their composite keys *)

MaxRaw == 2

\* year and district id of one record of the geometry file
GpkgYears == <<Num(2015), Num(2019), Txt(<<" ", "2", "0", "1", "5">>), Txt(<<"x">>), NaN>>
GpkgIds == <<Num(42), Flt(42), Txt(<<" ", "4", "2">>), Txt(<<"4", "_", "2">>), None, NaN>>

\* year and district id of one line of the turnout file, read as text
CsvYears == <<Txt(<<"2", "0", "1", "5">>), Txt(<<"2", "0", "1", "9">>), Txt(<<"x">>), NaN>>
CsvIds == <<Txt(<<"4", "2">>), Txt(<<"4", "2", ".", "0">>), Txt(<<" ", "7">>),
            Txt(<<"N", "o", "n", "e">>), NaN>>

GpkgHeaders == {
    {"Year", "FEDUID", "FEDNAME", "geometry"},
    {"year", "riding_num", "riding_name", "geometry"},
    {"ELECTION_YEAR", "ED_NUM", "geometry"},
    {"Year", "FEDNAME", "geometry"},
    {"riding_num", "geometry"} }

CsvHeaders == {
    <<"Year", "Electoral District Name", "Electoral District Number", "Voter Turnout (%)">>,
    <<"Year", "Electoral District Number", "Electoral District Name", "Voter Turnout (%)">>,
    <<"Year", "Riding", "Voter Turnout (%)">>,
    <<"Year", "Voter Turnout (%)">>,
    <<"Electoral District Number", "Electors">> }

\* the cell a record has under a label of the geometry file
GpkgCell(label, y, id, part) ==
    LET low == LabelLower(label) IN
    CASE low \in {"year", "election_year"} -> GpkgYears[y]
      [] low \in {"riding_num", "feduid", "ed_num"} -> GpkgIds[id]
      [] low \in {"riding_name", "fedname"} -> Txt(<<"A", "b">>)
      [] OTHER -> Geom({part}, FALSE)

\* the cell a line has under a header of the turnout file
CsvCell(label, y, id) ==
    CASE label = "Year" -> CsvYears[y]
      [] label = "Electoral District Number" -> CsvIds[id]
      [] label \in {"Electoral District Name", "Riding"} -> Txt(<<"A", " ", " ", "b">>)
      [] label = "Voter Turnout (%)" -> Txt(<<"5", "4", ",", "3", "0", "%">>)
      [] OTHER -> Txt(<<"9", "0", "0">>)

\* the records of a file: one to MaxRaw (year, id) choices
RawPicks(ny, nid) ==
    UNION {[1..n -> (1..ny) \X (1..nid)] : n \in 1..MaxRaw}

Ascending(p) ==
    \A i \in 1..(Len(p) - 1) :
        \/ p[i][1] < p[i + 1][1]
        \/ p[i][1] = p[i + 1][1] /\ p[i][2] <= p[i + 1][2]

GpkgFiles ==
    {Frame(h, [i \in DOMAIN p |-> [c \in h |-> GpkgCell(c, p[i][1], p[i][2], i)]]) :
        h \in GpkgHeaders,
        p \in {q \in RawPicks(Len(GpkgYears), Len(GpkgIds)) : Ascending(q)}}

CsvFiles ==
    {[order |-> h,
      rows |-> [i \in DOMAIN p |->
                  [c \in {h[k] : k \in DOMAIN h} |-> CsvCell(c, p[i][1], p[i][2])]]] :
        h \in CsvHeaders,
        p \in {q \in RawPicks(Len(CsvYears), Len(CsvIds)) : Ascending(q)}}

InitKeys ==
    /\ kb_src \in {[kind |-> "gpkg", raw |-> f] : f \in GpkgFiles}
                  \cup {[kind |-> "csv", raw |-> f] : f \in CsvFiles}
    /\ kb_out = Pending

LoadGpkg ==
    /\ kb_src.kind = "gpkg"
    /\ kb_out = Pending
    /\ kb_out' = load_gpkg(kb_src.raw)
    /\ UNCHANGED kb_src
    /\ UNCHANGED <<joinVars, normVars>>

LoadFederalCsv ==
    /\ kb_src.kind = "csv"
    /\ kb_out = Pending
    /\ kb_out' = load_federal_csv(kb_src.raw)
    /\ UNCHANGED kb_src
    /\ UNCHANGED <<joinVars, normVars>>

NextKeys ==
    \/ LoadGpkg
    \/ LoadFederalCsv

InitKeyBuild == IdleJoin /\ IdleNorm /\ InitKeys
SpecKeys == InitKeyBuild /\ [][NextKeys]_vars

----------------------------------------------------------------------------
(* Properties of prepare_map_df *)

\* the geometry source as the call reads it (election_year read as year)
GeoIn ==
    IF "election_year" \in gdf_0.cols /\ "year" \notin gdf_0.cols
    THEN Rename(gdf_0, "election_year", "year")
    ELSE gdf_0

\* the geometry records of the requested year
YearRows ==
    IF "year" \in GeoIn.cols
    THEN {i \in DOMAIN GeoIn.rows : GeoIn.rows[i]["year"] = Num(year)}
    ELSE {}

OnPreferred == join_key = "geo_key"

\* the key under which the join files a geometry record
KeyOf(r) == IF OnPreferred THEN r["geo_key"] ELSE NormKeyCell(join_key, r[join_key])

\* the record has a key the join keeps
HasKey(r) ==
    IF OnPreferred
    THEN ~IsNull(r["geo_key"]) /\ Len(StrOf(r["geo_key"])) > 0
    ELSE ~MissingKey(KeyOf(r))

OutRows == result.data.rows

Represented(r) ==
    \E n \in DOMAIN OutRows :
        /\ OutRows[n][join_key] = KeyOf(r)
        /\ r["geometry"].g \subseteq OutRows[n]["geometry"].g

\* no turnout record of the requested year carries the key
NoTurnout(k) ==
    \A j \in DOMAIN df_loc.rows :
        ~(df_loc.rows[j]["year"] = Num(year) /\ df_loc.rows[j][join_key] = k)

NullTurnoutWhereUnmatched ==
    \A n \in DOMAIN OutRows :
        ("voter_participation_pct" \in result.data.cols /\ NoTurnout(OutRows[n][join_key]))
            => OutRows[n]["voter_participation_pct"] = NaN

Joined == pc = "returned" /\ join_key # "" /\ "year" \in df_loc.cols

GeoWithKey(k) == {i \in YearRows : GeoIn.rows[i]["geo_key"] = k}
\* the turnout records of the requested year filed under geo_key k
TurnWithKey(k) ==
    {j \in DOMAIN df_0.rows :
        df_0.rows[j]["year"] = Num(year) /\ df_0.rows[j]["geo_key"] = k}

CompositeInputs ==
    /\ "geo_key" \in GeoIn.cols /\ "year" \in GeoIn.cols
    /\ "geo_key" \in df_0.cols /\ "year" \in df_0.cols

\* the composite keys: texts "<year>__<id>", never null nor empty
CompositeKeysIn ==
    {k \in KeyCells(GeoIn, "geo_key") : k.t = "str" /\ Len(k.s) > 0}

OneUnionRow(k) ==
    LET hits == {n \in DOMAIN OutRows : OutRows[n]["geo_key"] = k}
        t == CHOOSE j \in TurnWithKey(k) : TRUE
    IN  /\ Cardinality(hits) = 1
        /\ \A n \in hits :
              /\ OutRows[n]["geometry"].g =
                     UNION {GeoIn.rows[i]["geometry"].g : i \in GeoWithKey(k)}
              /\ OutRows[n]["voter_participation_pct"] =
                     df_0.rows[t]["voter_participation_pct"]

\* C2: a composite key with k >= 1 geometry records of the requested year and
\* exactly one turnout record of that year gives exactly one returned row,
\* with the union of the k geometries and the turnout record's value
C2_OneRowUnionAndTurnout ==
    (pc \in {"returned", "raised"} /\ CompositeInputs) =>
        \A k \in CompositeKeysIn :
            (GeoWithKey(k) # {} /\ Cardinality(TurnWithKey(k)) = 1)
                => result.kind = "dataset" /\ OneUnionRow(k)

C2_Witness ==
    /\ pc = "returned" /\ CompositeInputs
    /\ \E k \in CompositeKeysIn :
          /\ Cardinality(GeoWithKey(k)) >= 2
          /\ Cardinality(TurnWithKey(k)) = 1
          /\ OneUnionRow(k)

Deduplicated == pc \in {"preferred_merge", "fallback_merge"}

\* C3: after the deduplication step (dissolve or manual union, on either
\* path) the geometry rows are as many as the distinct join keys
C3_OneGeometryRowPerKey ==
    Deduplicated =>
        Len(view_gdf.rows) = Cardinality(KeyCells(view_gdf, join_key))

\* the year-filtered geometry held several records under one key, and the
\* manual union ran (it keeps every column of the source)
C3_Witness ==
    /\ pc = "preferred_merge"
    /\ \E k \in CompositeKeysIn : Cardinality(GeoWithKey(k)) >= 2
    /\ "riding_name" \in view_gdf.cols
    /\ Len(view_gdf.rows) >= 2
    /\ Len(view_gdf.rows) < Cardinality(YearRows)

\* C4: the returned dataset holds at most one row per join key
C4_OneRowPerKey ==
    Joined =>
        \A m, n \in DOMAIN OutRows :
            OutRows[m][join_key] = OutRows[n][join_key] => m = n

Finished == pc \in {"returned", "raised"}

NoJoinKeyError == Raised("No valid join key found.")

SharedColumn(k) == k \in GeoIn.cols /\ k \in df_0.cols

\* shared when labels are compared case-insensitively
SharedIgnoringCase(k) == InLower(GeoIn.cols, k) /\ InLower(df_0.cols, k)

\* the requested year has geometry, geo_key is missing on a side, and none
\* of the four candidate keys is a column of both sources
NoCandidateInputs ==
    /\ YearRows # {}
    /\ ~SharedColumn("geo_key")
    /\ \A i \in DOMAIN CandidateKeys : ~SharedColumn(CandidateKeys[i])

C6_OnlyNoJoinKeyAborts ==
    pc = "raised" => result = NoJoinKeyError

\* C7: the caller's two datasets are after the call what they were before
C7_InputsNotMutated ==
    Finished => gdf_all = gdf_0 /\ df_fed = df_0

----------------------------------------------------------------------------
(* Normalizers applied twice *)

\* C8: for both normalizers and every text x,
\* normalize(normalize(x)) = normalize(x)
C8_NormalizeIdempotent ==
    nm_cnt >= 2 => nm_val = nm_prev

----------------------------------------------------------------------------
(* Composite keys of the loaders *)

KeyRows == IF kb_out.kind = "dataset" THEN kb_out.data.rows ELSE <<>>

\* where the first "__" of a key starts, 0 when there is none
FirstSep(s) ==
    LET at == {i \in 1..(Len(s) - 1) : s[i] = "_" /\ s[i + 1] = "_"}
    IN  IF at = {} THEN 0 ELSE CHOOSE i \in at : \A j \in at : i <= j

YearPart(s) == SubSeq(s, 1, FirstSep(s) - 1)
IdPart(s) == SubSeq(s, FirstSep(s) + 2, Len(s))

\* the loaded record has no year, or one that is not a number
YearMissing(i) ==
    "year" \notin kb_out.data.cols \/ IsNull(kb_out.data.rows[i]["year"])

\* the file has no district id for the record: a null under the id column,
\* or (geometry file) neither an id column nor an alias of it
IdMissing(i) ==
    IF kb_src.kind = "gpkg"
    THEN LET g == LowerLabels(kb_src.raw)
             id_col == FirstPresent(id_candidates, g.cols)
         IN  ~id_col.found \/ IsNull(g.rows[i][id_col.col])
    ELSE LET col_map == BuildColMap(kb_src.raw.order, 1, <<>>)
         IN  \E h \in DOMAIN col_map :
                 col_map[h] = "riding_num" /\ IsNull(kb_src.raw.rows[i][h])

\* C9: every loaded record's geo_key is a text "<year>__<id>" whose year
\* part is empty when the year is missing or not a number and whose id part
\* is empty when the district id is missing
C9_MissingPartsAreEmpty ==
    \A i \in DOMAIN KeyRows :
        LET k == KeyRows[i]["geo_key"] IN
        /\ k.t = "str"
        /\ FirstSep(k.s) > 0
        /\ YearMissing(i) => YearPart(k.s) = <<>>
        /\ IdMissing(i) => IdPart(k.s) = <<>>

\* the normalized (year, id) pair of a loaded record: the year as integer
\* text, empty when null or absent, and the trimmed text of the id
NormalizedYear(row) ==
    IF "year" \in DOMAIN row /\ row["year"].t = "num" THEN IntStr(row["year"].n) ELSE <<>>

NormalizedId(row) == Strip(StrOf(Get(row, "riding_num")))

NormalizedPair(row) == <<NormalizedYear(row), NormalizedId(row)>>

\* C10: two loaded records have the same geo_key exactly when their
\* normalized (year, id) pairs are the same
C10_KeyInjectiveOnNormalizedPairs ==
    \A i, j \in DOMAIN KeyRows :
        (NormalizedPair(KeyRows[i]) = NormalizedPair(KeyRows[j]))
            <=> (KeyRows[i]["geo_key"] = KeyRows[j]["geo_key"])

\* two records of one file with the same id and different years got
\* different keys
C10_Witness ==
    \E i, j \in DOMAIN KeyRows :
        /\ NormalizedId(KeyRows[i]) = NormalizedId(KeyRows[j])
        /\ NormalizedYear(KeyRows[i]) # <<>>
        /\ NormalizedYear(KeyRows[j]) # <<>>
        /\ NormalizedYear(KeyRows[i]) # NormalizedYear(KeyRows[j])
        /\ KeyRows[i]["geo_key"] # KeyRows[j]["geo_key"]
----------------------------------------------------------------------------
(* find_col_by_keywords called on its own *)

MaxCols == 3

FindLabels == {"Year", "Riding", "Electoral District Name",
               "Electoral District Number", "RIDING_NUM"}

FindKeywordLists == {
    RoleKeywords[1].keywords,
    RoleKeywords[3].keywords,
    RoleKeywords[4].keywords,
    RoleKeywords[7].keywords,
    <<<<"N", "U", "M">>, <<"r", "i", "d", "i", "n", "g">>>>,
    <<<<"d", "i", "s", "t", "r", "i", "c", "t">>, <<"Y", "e", "a", "r">>>> }

FindCols ==
    {NoCols} \cup {ColList(c) : c \in UNION {[1..n -> FindLabels] : n \in 0..MaxCols}}

InitFind ==
    /\ kb_src \in {[kind |-> "find", cols |-> c, keywords |-> k] :
                      c \in FindCols, k \in FindKeywordLists}
    /\ kb_out = Pending

\* the call reads its two arguments and assigns to neither: what the caller
\* holds afterwards is what was passed
FindCol ==
    /\ kb_src.kind = "find"
    /\ kb_out = Pending
    /\ kb_out' = [kind |-> "found",
                  ret |-> find_col_by_keywords(kb_src.cols, kb_src.keywords),
                  cols |-> kb_src.cols,
                  keywords |-> kb_src.keywords]
    /\ UNCHANGED kb_src
    /\ UNCHANGED <<joinVars, normVars>>

NextFind ==
    \/ FindCol

InitFindCol == IdleJoin /\ IdleNorm /\ InitFind
SpecFind == InitFindCol /\ [][NextFind]_vars

\* the label, trimmed and lowercased, contains the lowercased k-th keyword
KeywordHits(label, keywords, k) ==
    Contains(Lower(Strip(Spell(label))), Lower(keywords[k]))

\* the positions of the columns that contain some keyword
MatchingColumns ==
    {i \in DOMAIN kb_src.cols.items :
        \E k \in DOMAIN kb_src.keywords :
            KeywordHits(kb_src.cols.items[i], kb_src.keywords, k)}

\* C11: the search returns the first column, in column order, whose trimmed
\* lowercased label contains a keyword compared case-insensitively; None
\* when no column matches or the columns are None; the columns and the
\* keywords are afterwards what they were
C11_FirstMatchingColumn ==
    kb_out.kind = "found" =>
        /\ IF kb_src.cols.isnone \/ MatchingColumns = {}
           THEN kb_out.ret = NoCol
           ELSE kb_out.ret = Col(kb_src.cols.items[
                    CHOOSE i \in MatchingColumns : \A j \in MatchingColumns : i <= j])
        /\ kb_out.cols = kb_src.cols
        /\ kb_out.keywords = kb_src.keywords

\* the returned column matches only the second keyword, while the first
\* keyword matches a later column
C11_Witness ==
    /\ kb_out.kind = "found"
    /\ kb_out.ret.found
    /\ Len(kb_src.keywords) >= 2
    /\ ~KeywordHits(kb_out.ret.col, kb_src.keywords, 1)
    /\ KeywordHits(kb_out.ret.col, kb_src.keywords, 2)
    /\ \E i \in DOMAIN kb_src.cols.items :
           KeywordHits(kb_src.cols.items[i], kb_src.keywords, 1)
----------------------------------------------------------------------------
(* The turnout-percentage column of load_federal_csv *)

MaxPct == 4

PctChars == {"5", "0", ".", ",", "%", "N"}

\* fields the turnout file is seen with, next to every short text
PctExamples == {
    Txt(<<"5", "4", ".", "3", "%">>),
    Txt(<<"5", "4", ",", "3">>),
    Txt(<<"N", "/", "A">>),
    Txt(<<" ", "6", "1", " ", "%">>),
    Txt(<<"1", ",", "2", "3", "4", ".", "5">>),
    Txt(<<"5", "4", ".", "3", "0", "%">>),
    NaN }

PctFields ==
    PctExamples \cup {Txt(s) : s \in UNION {[1..n -> PctChars] : n \in 1..MaxPct}}

InitPct ==
    /\ kb_src \in {[kind |-> "pct",
                    raw |-> Frame({"voter_participation_pct"},
                                  <<[c \in {"voter_participation_pct"} |-> f]>>)] :
                      f \in PctFields}
    /\ kb_out = Pending

\* lines 209-219
ParseTurnout ==
    /\ kb_src.kind = "pct"
    /\ kb_out = Pending
    /\ kb_out' = Dataset(CleanPct(kb_src.raw))
    /\ UNCHANGED kb_src
    /\ UNCHANGED <<joinVars, normVars>>

NextPct ==
    \/ ParseTurnout

InitPctParse == IdleJoin /\ IdleNorm /\ InitPct
SpecPct == InitPctParse /\ [][NextPct]_vars

PctRaw == kb_src.raw.rows[1]["voter_participation_pct"]
PctOut == kb_out.data.rows[1]["voter_participation_pct"]

\* the field as text, percent signs dropped and commas turned into dots
PctText ==
    LET kept == SelectSeq(StrOf(PctRaw), LAMBDA ch : ch # "%")
    IN  [i \in DOMAIN kept |-> IF kept[i] = "," THEN "." ELSE kept[i]]

\* the end of the run of digits that starts at position p of s
DigitsEnd(s, p) ==
    CHOOSE e \in p..Len(s) :
        /\ \A k \in p..e : IsDigit(s[k])
        /\ e = Len(s) \/ ~IsDigit(s[e + 1])

\* the number the first numeric token of s stands for
FirstTokenValue(s) ==
    LET p == CHOOSE i \in DOMAIN s : IsDigit(s[i]) /\ \A j \in 1..(i - 1) : ~IsDigit(s[j])
        e == DigitsEnd(s, p)
        frac == IF e + 2 <= Len(s) /\ s[e + 1] = "." /\ IsDigit(s[e + 2])
                THEN SubSeq(s, e + 2, DigitsEnd(s, e + 2)) ELSE <<>>
    IN  Dec(ParseNat(SubSeq(s, p, e)), DropTrailingZeros(frac))

\* C12: every field parses to a number or to null: the first numeric token
\* of the field without percent signs and with commas as dots, null when
\* the field has no digit; "54.3%" and "54,3" give 54.3
C12_PctIsFirstTokenOrNull ==
    kb_out.kind = "dataset" =>
        /\ PctOut.t \in {"num", "nan"}
        /\ IF \E i \in DOMAIN PctText : IsDigit(PctText[i])
           THEN PctOut = FirstTokenValue(PctText)
           ELSE PctOut = NaN
        /\ PctRaw \in {Txt(<<"5", "4", ".", "3", "%">>), Txt(<<"5", "4", ",", "3">>)}
              => PctOut = Dec(54, <<"3">>)
        /\ PctRaw \in {Txt(<<"N", "/", "A">>), NaN} => PctOut = NaN

\* a field with a decimal comma was parsed to a number with a fraction
C12_Witness ==
    /\ kb_out.kind = "dataset"
    /\ \E i \in DOMAIN StrOf(PctRaw) : StrOf(PctRaw)[i] = ","
    /\ PctOut.t = "num"
    /\ PctOut.f # <<>>
----------------------------------------------------------------------------
(* Turnout files whose header lacks the district columns *)

\* the header has a column taken for the district id / the district name
CsvHasRole(role) ==
    LET col_map == BuildColMap(kb_src.raw.order, 1, <<>>)
    IN  \E h \in DOMAIN col_map : col_map[h] = role

\* C13: load_federal_csv never aborts on a header without district columns:
\* without an id column the id is made from the normalized district name,
\* and without id and name columns the dataset is still returned with a
\* geo_key for every record
C13_SchemaMissesNeverAbort ==
    (kb_src.kind = "csv" /\ kb_out # Pending) =>
        /\ kb_out.kind = "dataset"
        /\ \A i \in DOMAIN KeyRows : KeyRows[i]["geo_key"].t = "str"
        /\ (~CsvHasRole("riding_num") /\ CsvHasRole("riding_name")) =>
              \A i \in DOMAIN KeyRows :
                  KeyRows[i]["riding_num"] =
                      Txt(ReplaceRuns(KeyRows[i]["riding_name"].s, <<"_">>))
----------------------------------------------------------------------------
(* The federal page: both loaders, then prepare_map_df without a hint *)

PagePicks(ys, ids) ==
    {q \in UNION {[1..n -> ys \X ids] : n \in 1..MaxRaw} : Ascending(q)}

PageGpkgFiles ==
    {Frame(h, [i \in DOMAIN p |-> [c \in h |-> GpkgCell(c, p[i][1], p[i][2], i)]]) :
        h \in {{"Year", "FEDUID", "FEDNAME", "geometry"},
               {"year", "riding_num", "riding_name", "geometry"}},
        p \in PagePicks({1, 2}, {1, 3, 5})}

PageCsvFiles ==
    {[order |-> h,
      rows |-> [i \in DOMAIN p |->
                  [c \in {h[k] : k \in DOMAIN h} |-> CsvCell(c, p[i][1], p[i][2])]]] :
        h \in {<<"Year", "Electoral District Name", "Electoral District Number",
                 "Voter Turnout (%)">>,
               <<"Year", "Electoral District Number", "Electoral District Name",
                 "Voter Turnout (%)">>,
               <<"Year", "Riding", "Voter Turnout (%)">>},
        p \in PagePicks({1, 2}, {1, 3})}

\* 1_Federal_Map.py lines 13-27: both files loaded, a year selected, and
\* prepare_map_df(gdf_all, df_fed, year) called
InitPage ==
    /\ \E g \in PageGpkgFiles, c \in PageCsvFiles :
          /\ gdf_all = load_gpkg(g).data
          /\ df_fed = load_federal_csv(c).data
    /\ year \in RequestYears
    /\ hint = ""
    /\ gdf_0 = gdf_all
    /\ df_0 = df_fed
    /\ pc = "call"
    /\ view_gdf = NoFrame
    /\ df_loc = df_fed
    /\ df_shared = TRUE
    /\ df_year = NoFrame
    /\ join_key = ""
    /\ result = Pending

\* both loaders make a geo_key column, so the call takes the preferred path
NextPage ==
    \/ FilterYear
    \/ PreferredFilter
    \/ PreferredDedup
    \/ PreferredMerge

InitFederalPage == InitPage /\ IdleNorm /\ IdleKey
SpecPage == InitFederalPage /\ [][NextPage]_vars

\* the columns the page reads from the result
ConsumerColumns == {"riding_name", "geometry", "voter_participation_pct"}

\* C14: every non-empty result of prepare_map_df on loader output has the
\* columns riding_name, geometry and voter_participation_pct
C14_ConsumerColumnsPresent ==
    (pc = "returned" /\ ~IsEmpty(result.data)) =>
        ConsumerColumns \subseteq result.data.cols
----------------------------------------------------------------------------
(* utils_mun.prepare_municipal_year_gdf *)

MaxMun == 2

\* pd.to_numeric(errors="coerce") on Ward and Sub, rows with a null dropped,
\* then astype(int)
AlignKeys(df) ==
    LET num == SetCol(SetCol(df, "Ward", [i \in DOMAIN df.rows |-> ToInt64(df.rows[i]["Ward"])]),
                      "Sub", [i \in DOMAIN df.rows |-> ToInt64(df.rows[i]["Sub"])])
    IN  Where(num, [i \in DOMAIN num.rows |->
                       ~IsNull(num.rows[i]["Ward"]) /\ ~IsNull(num.rows[i]["Sub"])])

MunKeys == <<"Year", "Ward", "Sub">>

MunKeyOf(row) == [k \in DOMAIN MunKeys |-> row[MunKeys[k]]]

\* validate="1:1": no two rows of the frame have the same merge key
UniqueKeys(df) ==
    \A i, j \in DOMAIN df.rows : MunKeyOf(df.rows[i]) = MunKeyOf(df.rows[j]) => i = j

\* g_year.merge(t_year[[Year, Ward, Sub, PctVoted]], how="left") under 1:1
MunMerge(g, t) ==
    LET cols == g.cols \cup {"PctVoted"}
        hit(i) == {j \in DOMAIN t.rows : MunKeyOf(t.rows[j]) = MunKeyOf(g.rows[i])}
    IN  Frame(cols,
              [i \in DOMAIN g.rows |->
                  [c \in cols |->
                      IF c # "PctVoted" THEN g.rows[i][c]
                      ELSE IF hit(i) = {} THEN NaN
                      ELSE t.rows[CHOOSE j \in hit(i) : TRUE]["PctVoted"]]])

KeyError(label) == Raised("KeyError: " \o label)

\* lines 140-145, both frames having the columns read so far
MunJoin(g, t) ==
    IF "PctVoted" \notin t.cols THEN KeyError("PctVoted")
    ELSE IF ~UniqueKeys(g) \/ ~UniqueKeys(t)
    THEN Raised("MergeError: not a one-to-one merge")
    ELSE Dataset(MunMerge(g, t))

prepare_municipal_year_gdf(y, geom_gdf, turnout_df) ==
    IF "Year" \notin geom_gdf.cols \/ "Year" \notin turnout_df.cols
    THEN KeyError("Year")
    ELSE IF "Ward" \notin geom_gdf.cols \/ "Ward" \notin turnout_df.cols
    THEN KeyError("Ward")
    ELSE IF "Sub" \notin geom_gdf.cols \/ "Sub" \notin turnout_df.cols
    THEN KeyError("Sub")
    ELSE MunJoin(AlignKeys(Where(geom_gdf, [i \in DOMAIN geom_gdf.rows |->
                                    geom_gdf.rows[i]["Year"] = Num(y)])),
                 AlignKeys(Where(turnout_df, [i \in DOMAIN turnout_df.rows |->
                                    turnout_df.rows[i]["Year"] = Num(y)])))

\* year, ward, subdivision of a municipal geometry record
MunGeoSpecs == <<
    [Year |-> Num(2018), Ward |-> Num(1), Sub |-> Num(1)],
    [Year |-> Num(2018), Ward |-> Txt(<<"1">>), Sub |-> Num(2)],
    [Year |-> Num(2022), Ward |-> Num(1), Sub |-> Num(1)] >>

\* year, ward, subdivision and turnout of a municipal turnout record
MunTurnSpecs == <<
    [Year |-> Num(2018), Ward |-> Num(1), Sub |-> Num(1), PctVoted |-> Num(55)],
    [Year |-> Num(2018), Ward |-> Num(1), Sub |-> Num(1), PctVoted |-> Num(60)],
    [Year |-> Num(2022), Ward |-> Num(1), Sub |-> Num(1), PctVoted |-> Num(50)],
    [Year |-> Num(2014), Ward |-> Num(1), Sub |-> Num(1), PctVoted |-> Num(40)],
    [Year |-> Num(2014), Ward |-> Num(1), Sub |-> Num(1), PctVoted |-> Num(41)] >>

MunTurnSchemas == {
    {"Year", "Ward", "Sub", "PctVoted"},
    {"Year", "Ward", "PctVoted"},
    {"Year", "Ward", "Sub"},
    {"Year", "PctVoted"} }

MunYears == {2014, 2018, 2022}

MunPicks(n) ==
    {p \in UNION {[1..k -> 1..n] : k \in 0..MaxMun} :
        \A i \in 1..(Len(p) - 1) : p[i] <= p[i + 1]}

MunGeoFrame(p) ==
    Frame({"Year", "Ward", "Sub", "geometry"},
          [i \in DOMAIN p |->
              [c \in {"Year", "Ward", "Sub", "geometry"} |->
                  IF c = "geometry" THEN Geom({i}, FALSE) ELSE MunGeoSpecs[p[i]][c]]])

MunTurnFrame(cols, p) ==
    Frame(cols, [i \in DOMAIN p |-> [c \in cols |-> MunTurnSpecs[p[i]][c]]])

InitMun ==
    /\ kb_src \in {[kind |-> "municipal", year |-> y,
                    geom_gdf |-> MunGeoFrame(gp), turnout_df |-> MunTurnFrame(ts, tp)] :
                      y \in MunYears, gp \in MunPicks(Len(MunGeoSpecs)),
                      ts \in MunTurnSchemas, tp \in MunPicks(Len(MunTurnSpecs))}
    /\ kb_out = Pending

PrepareMunicipal ==
    /\ kb_src.kind = "municipal"
    /\ kb_out = Pending
    /\ kb_out' = prepare_municipal_year_gdf(kb_src.year, kb_src.geom_gdf, kb_src.turnout_df)
    /\ UNCHANGED kb_src
    /\ UNCHANGED <<joinVars, normVars>>

NextMun ==
    \/ PrepareMunicipal

InitMunicipal == IdleJoin /\ IdleNorm /\ InitMun
SpecMunicipal == InitMunicipal /\ [][NextMun]_vars

\* the municipal geometry has no record of the requested year
NoMunGeometryForYear ==
    \A i \in DOMAIN kb_src.geom_gdf.rows :
        kb_src.geom_gdf.rows[i]["Year"] # Num(kb_src.year)

\* C15: when the geometry source has no record for the requested year the
\* join returns an empty dataset and does not raise, whatever the turnout
\* source contains
C15_EmptyYearReturnsEmpty ==
    (kb_out # Pending /\ NoMunGeometryForYear) =>
        kb_out.kind = "dataset" /\ IsEmpty(kb_out.data)
----------------------------------------------------------------------------
(* The join key of the fallback path *)

\* the call went past the choice of a fallback join key
FallbackKeyChosen ==
    /\ "year" \in GeoIn.cols
    /\ YearRows # {}
    /\ ~("geo_key" \in GeoIn.cols /\ "geo_key" \in df_0.cols)
    /\ pc \in {"normalize", "fallback_dedup", "fallback_merge", "returned", "raised"}

\* the positions of the candidates that both sources have up to case
SharedCandidatesIgnoringCase ==
    {i \in DOMAIN CandidateKeys : SharedIgnoringCase(CandidateKeys[i])}

\* C16: without a hint the fallback join key is the first of riding_id,
\* riding_name, riding_num, name that both sources have under its exact
\* name; failing that, the first of the four that both have when names are
\* compared case-insensitively, and the join is made on it
C16_FallbackKeyIsFirstCandidate ==
    (FallbackKeyChosen /\ hint = "") =>
        LET exact == FirstShared(CandidateKeys, GeoIn.cols, df_0.cols) IN
        IF exact # "" THEN join_key = exact
        ELSE IF SharedCandidatesIgnoringCase # {}
        THEN /\ join_key # ""
             /\ LabelLower(join_key) = CandidateKeys[
                    CHOOSE i \in SharedCandidatesIgnoringCase :
                        \A j \in SharedCandidatesIgnoringCase : i <= j]
             /\ result # NoJoinKeyError
        ELSE result = NoJoinKeyError
----------------------------------------------------------------------------
(* Turnout change since the previous election *)

\* a non-empty dataset came back from the fallback path
FallbackReturned ==
    /\ pc = "returned"
    /\ join_key # ""
    /\ ~OnPreferred
    /\ ~IsEmpty(result.data)

\* the turnout source, as the join read it, has turnout values and one
\* record per district (value of the join key) and year
OneRecordPerDistrictYear ==
    /\ {join_key, "year", "voter_participation_pct"} \subseteq df_loc.cols
    /\ \A i, j \in DOMAIN df_loc.rows :
          (/\ df_loc.rows[i][join_key] = df_loc.rows[j][join_key]
           /\ df_loc.rows[i]["year"] = df_loc.rows[j]["year"]) => i = j

\* the turnout records of district k in an election year before the
\* requested one
EarlierRecords(k) ==
    {j \in DOMAIN df_loc.rows :
        /\ df_loc.rows[j][join_key] = k
        /\ df_loc.rows[j]["year"].t = "num"
        /\ df_loc.rows[j]["year"].n < year}

\* district k's turnout in its latest election year before the requested one
PreviousTurnout(k) ==
    IF EarlierRecords(k) = {} THEN NaN
    ELSE df_loc.rows[CHOOSE j \in EarlierRecords(k) :
                        \A i \in EarlierRecords(k) :
                            df_loc.rows[i]["year"].n <= df_loc.rows[j]["year"].n]
             ["voter_participation_pct"]

\* a - b of two turnout values, null when either is null
Difference(a, b) == IF a.t = "num" /\ b.t = "num" THEN Num(a.n - b.n) ELSE NaN

\* C17: on the fallback path, with one turnout record per district and
\* year, every returned row has prev_participation equal to its district's
\* turnout in the latest earlier election year and delta_pct equal to its
\* turnout minus prev_participation, both null without an earlier record
C17_DeltaOnEveryFallbackRow ==
    (FallbackReturned /\ OneRecordPerDistrictYear) =>
        /\ {"prev_participation", "delta_pct"} \subseteq result.data.cols
        /\ \A n \in DOMAIN OutRows :
              /\ OutRows[n]["prev_participation"] = PreviousTurnout(OutRows[n][join_key])
              /\ OutRows[n]["delta_pct"] =
                    Difference(OutRows[n]["voter_participation_pct"],
                               OutRows[n]["prev_participation"])

\* the column the turnout change is grouped by
DeltaKey == IF "riding_id" \in df_loc.cols THEN "riding_id" ELSE "riding_name"

\* district k has a turnout record for the requested year
HasCurrentRecord(k) ==
    \E j \in DOMAIN df_loc.rows :
        df_loc.rows[j][join_key] = k /\ df_loc.rows[j]["year"] = Num(year)

\* C17 amended: on the fallback path, when the join key is the column the
\* change is grouped by and the turnout source has one record per district
\* and year, a returned row whose district has a record for the requested
\* year has prev_participation equal to the district's turnout in its
\* latest earlier election year, any other row has it null, and delta_pct
\* is the row's turnout minus prev_participation; the composite-key path
\* attaches neither column
C17_DeltaForDistrictsOfTheYear ==
    /\ (FallbackReturned /\ OneRecordPerDistrictYear /\ join_key = DeltaKey) =>
          /\ {"prev_participation", "delta_pct"} \subseteq result.data.cols
          /\ \A n \in DOMAIN OutRows :
                /\ OutRows[n]["prev_participation"] =
                      IF HasCurrentRecord(OutRows[n][join_key])
                      THEN PreviousTurnout(OutRows[n][join_key]) ELSE NaN
                /\ OutRows[n]["delta_pct"] =
                      Difference(OutRows[n]["voter_participation_pct"],
                                 OutRows[n]["prev_participation"])
    /\ (pc = "returned" /\ OnPreferred) =>
          {"prev_participation", "delta_pct"} \cap result.data.cols = {}

\* a fallback row with a turnout, an earlier turnout and their difference
C17_Witness ==
    /\ FallbackReturned
    /\ OneRecordPerDistrictYear
    /\ join_key = DeltaKey
    /\ \E n \in DOMAIN OutRows :
          /\ OutRows[n]["prev_participation"] = Num(50)
          /\ OutRows[n]["voter_participation_pct"] = Num(61)
          /\ OutRows[n]["delta_pct"] = Num(11)
----------------------------------------------------------------------------
(* The two ways of uniting the geometry records of a key *)

DedupKey == IF pc = "preferred_dedup" THEN "geo_key" ELSE join_key

\* the call is about to unite duplicate keys
AtDeduplication ==
    /\ pc \in {"preferred_dedup", "fallback_dedup"}
    /\ HasDuplicates(view_gdf, DedupKey)

\* C18: on the same geometry records the dissolve and the manual per-key
\* union give the same dataset: the same keys, union geometries and
\* preserved attributes
C18_DedupPathsEquivalent ==
    AtDeduplication =>
        Deduplicate(view_gdf, DedupKey, FALSE) = Deduplicate(view_gdf, DedupKey, TRUE)
----------------------------------------------------------------------------
(* Dash variants in district names: utils_pro *)

\* the characters of the mis-encoded em dash and en dash
MisEmDash == <<"<U+00E2>", "<U+20AC>", "<U+201D>">>
MisEnDash == <<"<U+00E2>", "<U+20AC>", "<U+201C>">>

\* utils_pro.clean_dashes
clean_dashes(c) ==
    IF c.t # "str" THEN c
    ELSE Txt(Strip(Replace(Replace(Replace(c.s, MisEmDash, <<EmDash>>),
                                   MisEnDash, <<EnDash>>),
                           <<"-", "-">>, <<EmDash>>)))

\* the list literal of lines 52-61
toronto_district_names == <<
    <<"b", "e", "a", "c", "h", "e", "s", "-", "e", "a", "s", "t", " ", "y", "o", "r", "k">>,
    <<"d", "a", "v", "e", "n", "p", "o", "r", "t">>,
    <<"d", "o", "n", " ", "v", "a", "l", "l", "e", "y", " ", "e", "a", "s", "t">>,
    <<"d", "o", "n", " ", "v", "a", "l", "l", "e", "y", " ", "w", "e", "s", "t">>,
    <<"d", "o", "n", " ", "v", "a", "l", "l", "e", "y", " ", "n", "o", "r", "t", "h">>,
    <<"e", "g", "l", "i", "n", "t", "o", "n", "-", "l", "a", "w", "r", "e", "n", "c", "e">>,
    <<"e", "t", "o", "b", "i", "c", "o", "k", "e", " ", "c", "e", "n", "t", "r", "e">>,
    <<"e", "t", "o", "b", "i", "c", "o", "k", "e", " ", "n", "o", "r", "t", "h">>,
    <<"e", "t", "o", "b", "i", "c", "o", "k", "e", "-", "l", "a", "k", "e", "s", "h", "o", "r", "e">>,
    <<"h", "u", "m", "b", "e", "r", " ", "r", "i", "v", "e", "r", "-", "b", "l", "a", "c", "k", " ", "c", "r", "e", "e", "k">>,
    <<"p", "a", "r", "k", "d", "a", "l", "e", "-", "h", "i", "g", "h", " ", "p", "a", "r", "k">>,
    <<"s", "c", "a", "r", "b", "o", "r", "o", "u", "g", "h", " ", "c", "e", "n", "t", "r", "e">>,
    <<"s", "c", "a", "r", "b", "o", "r", "o", "u", "g", "h", "-", "a", "g", "i", "n", "c", "o", "u", "r", "t">>,
    <<"s", "c", "a", "r", "b", "o", "r", "o", "u", "g", "h", "-", "g", "u", "i", "l", "d", "w", "o", "o", "d">>,
    <<"s", "c", "a", "r", "b", "o", "r", "o", "u", "g", "h", " ", "n", "o", "r", "t", "h">>,
    <<"s", "c", "a", "r", "b", "o", "r", "o", "u", "g", "h", "-", "r", "o", "u", "g", "e", " ", "p", "a", "r", "k">>,
    <<"s", "c", "a", "r", "b", "o", "r", "o", "u", "g", "h", " ", "s", "o", "u", "t", "h", "w", "e", "s", "t">>,
    <<"s", "p", "a", "d", "i", "n", "a", "-", "f", "o", "r", "t", " ", "y", "o", "r", "k">>,
    <<"t", "o", "r", "o", "n", "t", "o", "-", "s", "t", ".", " ", "p", "a", "u", "l", "'", "s">>,
    <<"t", "o", "r", "o", "n", "t", "o", " ", "c", "e", "n", "t", "r", "e">>,
    <<"t", "o", "r", "o", "n", "t", "o", "-", "d", "a", "n", "f", "o", "r", "t", "h">>,
    <<"u", "n", "i", "v", "e", "r", "s", "i", "t", "y", "-", "r", "o", "s", "e", "d", "a", "l", "e">>,
    <<"w", "i", "l", "l", "o", "w", "d", "a", "l", "e">>,
    <<"y", "o", "r", "k", " ", "c", "e", "n", "t", "r", "e">>,
    <<"y", "o", "r", "k", " ", "s", "o", "u", "t", "h", "-", "w", "e", "s", "t", "o", "n">> >>

\* line 63: the official districts, each through normalize_one
toronto_districts ==
    {normalize_one(Txt(toronto_district_names[i])).s : i \in DOMAIN toronto_district_names}

\* the ways a dash is written in a source file
DashVariants == {<<"-">>, <<EmDash>>, <<EnDash>>, <<"-", "-">>, MisEmDash, MisEnDash}

\* str.upper() on the characters of the model
Upper(s) ==
    [i \in DOMAIN s |->
        IF \E k \in DOMAIN LowerChars : LowerChars[k] = s[i]
        THEN UpperChars[CHOOSE k \in DOMAIN LowerChars : LowerChars[k] = s[i]]
        ELSE s[i]]

\* an official name as a shapefile may spell it: a dash variant for each
\* hyphen, upper or lower case, spaces around
Spellings(name) ==
    {pad \o cased \o pad :
        pad \in {<<>>, <<" ">>},
        cased \in {w \in {Replace(name, <<"-">>, v) : v \in DashVariants}
                       \cup {Upper(Replace(name, <<"-">>, v)) : v \in DashVariants} : TRUE}}

InitDash ==
    /\ kb_src \in {[kind |-> "district", official |-> toronto_district_names[i], name |-> Txt(s)] :
                      i \in DOMAIN toronto_district_names,
                      s \in UNION {Spellings(toronto_district_names[k]) :
                                      k \in DOMAIN toronto_district_names}}
    /\ kb_src.name.s \in Spellings(kb_src.official)
    /\ kb_out = Pending

\* lines 45-46 on a turnout name and lines 80-83 of get_provincial_map on a
\* shapefile record of that name
FilterToronto ==
    /\ kb_src.kind = "district"
    /\ kb_out = Pending
    /\ kb_out' = [kind |-> "filtered",
                  csv_name |-> clean_dashes(kb_src.name),
                  name_clean |-> normalize_one(kb_src.name),
                  kept |-> normalize_one(kb_src.name).s \in toronto_districts]
    /\ UNCHANGED kb_src
    /\ UNCHANGED <<joinVars, normVars>>

NextDash ==
    \/ FilterToronto

InitDistricts == IdleJoin /\ IdleNorm /\ InitDash
SpecDash == InitDistricts /\ [][NextDash]_vars

\* C19: a district name written with any dash variant normalizes to the
\* form of the same name written with "-", so the Toronto filter of
\* get_provincial_map keeps the shapefile record of an official district
\* whatever dash variant its name uses
C19_DashVariantsAgree ==
    kb_out.kind = "filtered" =>
        /\ kb_out.name_clean = normalize_one(Txt(kb_src.official))
        /\ kb_out.kept
----------------------------------------------------------------------------
(* One district of one election in both sources: 1_Federal_Map lines 14-15 *)

AgreeYears == {2015, 2019, 2021}
AgreeIds == {7, 42, 35001}

\* the ways the geometry file stores a year and a district id
GpkgYearForms(y) == {Num(y), Txt(NatStr(y))}
GpkgIdForms(n) == {Num(n), Flt(n), Txt(NatStr(n)), Txt(<<" ">> \o NatStr(n))}

\* the ways the turnout file, read as text, stores a district id
CsvIdForms(n) == {Txt(NatStr(n)), Txt(NatStr(n) \o <<".", "0">>)}

AgreeYearLabels == {"year", "Year", "ELECTION_YEAR"}
AgreeIdLabels == {"riding_num", "FEDUID", "ED_NUM"}

AgreeCsvHeaders == {
    <<"Year", "Electoral District Name", "Electoral District Number", "Voter Turnout (%)">>,
    <<"Year", "Electoral District Number", "Electoral District Name", "Voter Turnout (%)">> }

\* a geometry file of one record
OneGpkgRecord(ylab, y, idlab, id) ==
    Frame({ylab, idlab, "geometry"},
          <<[c \in {ylab, idlab, "geometry"} |->
                CASE c = ylab -> y
                  [] c = idlab -> id
                  [] OTHER -> Geom({1}, FALSE)]>>)

\* a turnout file of one line
OneCsvLine(h, y, id) ==
    [order |-> h,
     rows |-> <<[c \in {h[k] : k \in DOMAIN h} |->
                  CASE c = "Year" -> Txt(NatStr(y))
                    [] c = "Electoral District Number" -> id
                    [] c = "Electoral District Name" -> Txt(<<"A", "b">>)
                    [] OTHER -> Txt(<<"5", "4", ".", "3">>)]>>]

InitAgree ==
    /\ kb_src \in {[kind |-> "pair", year |-> y, id |-> n, id_label |-> idlab,
                    gpkg |-> OneGpkgRecord(ylab, gy, idlab, gid),
                    csv |-> OneCsvLine(h, y, cid)] :
                      y \in AgreeYears, n \in AgreeIds,
                      ylab \in AgreeYearLabels, idlab \in AgreeIdLabels,
                      gy \in UNION {GpkgYearForms(k) : k \in AgreeYears},
                      gid \in UNION {GpkgIdForms(k) : k \in AgreeIds},
                      cid \in UNION {CsvIdForms(k) : k \in AgreeIds},
                      h \in AgreeCsvHeaders}
    /\ kb_src.gpkg.rows[1][CHOOSE c \in kb_src.gpkg.cols : LabelLower(c) \in {"year", "election_year"}]
           \in GpkgYearForms(kb_src.year)
    /\ kb_src.gpkg.rows[1][kb_src.id_label] \in GpkgIdForms(kb_src.id)
    /\ kb_src.csv.rows[1]["Electoral District Number"] \in CsvIdForms(kb_src.id)
    /\ kb_out = Pending

\* 1_Federal_Map lines 14-15: both files are loaded
LoadSources ==
    /\ kb_src.kind = "pair"
    /\ kb_out = Pending
    /\ kb_out' = [kind |-> "pair",
                  gdf_all |-> load_gpkg(kb_src.gpkg),
                  df_fed |-> load_federal_csv(kb_src.csv)]
    /\ UNCHANGED kb_src
    /\ UNCHANGED <<joinVars, normVars>>

NextAgree ==
    \/ LoadSources

InitSources == IdleJoin /\ IdleNorm /\ InitAgree
SpecAgree == InitSources /\ [][NextAgree]_vars

\* both files loaded without an error
BothLoaded ==
    /\ kb_out.kind = "pair"
    /\ kb_out.gdf_all.kind = "dataset"
    /\ kb_out.df_fed.kind = "dataset"

\* C20: a geometry record and a turnout record of the same election year and
\* the same district id get equal geo_key values from load_gpkg and
\* load_federal_csv, whether the geometry file stores the id as an integer,
\* an integer-valued float or text, under riding_num or under an alias
C20_KeysAgreeAcrossSources ==
    kb_out.kind = "pair" =>
        /\ BothLoaded
        /\ kb_out.gdf_all.data.rows[1]["geo_key"] = kb_out.df_fed.data.rows[1]["geo_key"]
----------------------------------------------------------------------------
(* The roles the header searches of load_federal_csv resolve: lines 148-186 *)

\* the roles whose search finds a header of the file
ResolvedRoles ==
    {RoleKeywords[k].role : k \in {j \in DOMAIN RoleKeywords :
        find_col_by_keywords(ColList(kb_src.raw.order), RoleKeywords[j].keywords).found}}

\* C21: every role whose search finds a header of the turnout file is a
\* column of the dataset load_federal_csv returns: no later role's rename
\* replaces an earlier role's
C21_ResolvedRolesAreColumns ==
    (kb_src.kind = "csv" /\ kb_out.kind = "dataset") =>
        \A role \in ResolvedRoles : role \in kb_out.data.cols

====
